---- MODULE Spec2Model ----
(***************************************************************************)
(* Real Estate Deal Finder: the rent-estimate cache of RentCastApiClient   *)
(* (api_clients.py) and the listing pipeline of RealEstateOrchestrator     *)
(* (orchestrator.py) with the calculators of calculations.py, the command  *)
(* line of main.py, _make_request of the two clients, and the run,         *)
(* recalculation and shortlist handlers of the web app (app.py).           *)
(*                                                                         *)
(* Money and rates are exact rationals [n, d]; float arithmetic is exact   *)
(* except in two places of calculate_monthly_mortgage: math_pow rounds a   *)
(* power that is too long to keep, and SubUlpRate is a rate so small that  *)
(* 1 + rate/12 is 1.0.  Time is datetime.now().timestamp() in whole ticks. *)
(***************************************************************************)
EXTENDS Integers, Sequences, FiniteSets, TLC

VARIABLES
    now,                     \* datetime.datetime.now().timestamp()
    cache_duration_seconds,  \* RentCastApiClient.cache_duration_seconds
    file,                    \* content of the file at cache_file_path
    cache_data,              \* RentCastApiClient.cache_data
    loaded_from,             \* what the last _load_cache found on disk
    stored,                  \* per key: the last entry a fetch stored, and whether
                             \* a client was constructed since
    call,                    \* the get_rent_estimate call made by the last step
    down_payment_percent,    \* RealEstateOrchestrator.down_payment_percent
    interest_rate_decimal,   \* RealEstateOrchestrator.interest_rate_decimal
    loan_term_years,         \* RealEstateOrchestrator.loan_term_years
    min_coc_return,          \* RealEstateOrchestrator.min_coc_return
    min_cash_flow,           \* RealEstateOrchestrator.min_cash_flow
    pc,                      \* position of process_zip_codes
    zip_codes,               \* its argument
    zi,                      \* index of the ZIP code being processed
    remaining,               \* listings of the current ZIP not yet examined
    requested,               \* ZIP codes passed to get_listings_by_zip so far
    delivered,               \* listings returned by the listing source so far
    examined,                \* listings the loop body has started on so far
    last,                    \* the listing examined by the last step, its outcome
    all_processed_properties,
    filtered_properties,
    calc,                    \* the calculator call made by the last step, its result
    feed,                    \* listings the listing source may return
    answers,                 \* what the rent source may answer
    reruns,                  \* calls of process_zip_codes that repeat the first
    run,                     \* number of the current call of process_zip_codes
    log,                     \* per requested ZIP code, the listings the first call
                             \* was given (kept when a call will repeat it)
    first,                   \* the first call's result, and whether one of its
                             \* rent lookups returned None
    writes,                  \* how a write of the cache file may end
    clicks,                  \* times the user clicks Run Analysis in the session
    peer,                    \* cache_data of a second RentCastApiClient instance
    http,                    \* the _make_request call made by the last step
    cli,                     \* main(): its inputs, its position, its exit code
    session,                 \* st.session_state of the web app
    ui                       \* the web-app handler run by the last step

cache_vars == <<now, cache_duration_seconds, file, cache_data, loaded_from,
                stored, call>>
config_vars == <<down_payment_percent, interest_rate_decimal, loan_term_years,
                 min_coc_return, min_cash_flow>>
run_vars == <<pc, zip_codes, zi, remaining, requested, delivered, examined, last,
              all_processed_properties, filtered_properties>>
env_vars == <<feed, answers, writes, clicks>>
rerun_vars == <<reruns, run, log, first>>
app_vars == <<peer, http, cli, session, ui>>
vars == <<cache_vars, config_vars, run_vars, calc, env_vars, rerun_vars, app_vars>>

----------------------------------------------------------------------------
(* Bounds of the model.                                                    *)

MaxTime == 2
MaxListings == 2
MaxEntries == 2
MaxRows == 2
MaxItems == 3
MaxClicks == 2

----------------------------------------------------------------------------
(* Exact rational arithmetic for Python's float operations.                *)

Abs(x) == IF x < 0 THEN -x ELSE x

RECURSIVE GCD(_, _)
GCD(a, b) == IF b = 0 THEN a ELSE GCD(b, a % b)

Rat(n, d) ==
    LET s == IF d < 0 THEN -1 ELSE 1
        g == GCD(Abs(n), Abs(d))
    IN  [n |-> (s * n) \div g, d |-> (s * d) \div g]

R(i) == [n |-> i, d |-> 1]
Zero == R(0)

RAdd(a, b) ==
    LET g == GCD(a.d, b.d)
    IN  Rat(a.n * (b.d \div g) + b.n * (a.d \div g), (a.d \div g) * b.d)
RNeg(a) == [n |-> -a.n, d |-> a.d]
RSub(a, b) == RAdd(a, RNeg(b))
RMul(a, b) ==
    LET g1 == GCD(Abs(a.n), b.d)
        g2 == GCD(Abs(b.n), a.d)
        h1 == IF g1 = 0 THEN 1 ELSE g1
        h2 == IF g2 = 0 THEN 1 ELSE g2
    IN  Rat((a.n \div h1) * (b.n \div h2), (a.d \div h2) * (b.d \div h1))
\* b # 0
RDiv(a, b) == RMul(a, Rat(b.d, b.n))
RLe(a, b) == a.n * b.d <= b.n * a.d
RLt(a, b) == a.n * b.d < b.n * a.d
RGe(a, b) == RLe(b, a)

RECURSIVE IPow(_, _)
IPow(i, k) == IF k = 0 THEN 1 ELSE i * IPow(i, k - 1)

\* math.pow(a, k) for a whole k >= 0; a is in lowest terms, and so is a^k
RPow(a, k) == [n |-> IPow(a.n, k), d |-> IPow(a.d, k)]

\* int(x) of a float: truncation toward zero
Trunc(a) == IF a.n >= 0 THEN a.n \div a.d ELSE -((-a.n) \div a.d)

----------------------------------------------------------------------------
(* JSON values as the program sees them: a field of a dict is missing, or  *)
(* holds null, a non-numeric string, a numeric string or a number.         *)

Missing == [t |-> "missing", v |-> Zero]
Null == [t |-> "null", v |-> Zero]
Str == [t |-> "str", v |-> Zero]
NumStr(q) == [t |-> "numstr", v |-> q]
Num(q) == [t |-> "num", v |-> q]

\* results of a call: None, a float, or an exception leaving the function
None == [t |-> "none", v |-> Zero]
Value(q) == [t |-> "value", v |-> q]
Raised == [t |-> "raised", v |-> Zero]

\* float(x): [ok, v]; ValueError / TypeError give ok = FALSE
ToFloat(x) ==
    IF x.t \in {"num", "numstr"} THEN [ok |-> TRUE, v |-> x.v]
    ELSE [ok |-> FALSE, v |-> Zero]

\* int(x): truncates a number, parses an integer literal, fails otherwise
ToInt(x) ==
    IF x.t = "num" THEN [ok |-> TRUE, v |-> Trunc(x.v)]
    ELSE IF x.t = "numstr" /\ x.v.d = 1 THEN [ok |-> TRUE, v |-> x.v.n]
    ELSE [ok |-> FALSE, v |-> 0]

----------------------------------------------------------------------------
(* RentCastApiClient: the cache file, the in-memory cache, the validity    *)
(* check, load, save and get_rent_estimate.                                *)

Zips == {"90210", "10001"}
BedCounts == {1, 2}

\* cache_key = f"{zip_code}_{bedrooms}"
CacheKey(zip_code, bedrooms) == <<zip_code, bedrooms>>
Keys == {CacheKey(z, b) : z \in Zips, b \in BedCounts}

\* A value stored under a key of the cache: a dict with its two fields, or
\* something that is not a dict.
Entry(ts, data) == [dict |-> TRUE, timestamp |-> ts, data |-> data]
NotADict == [dict |-> FALSE, timestamp |-> Missing, data |-> Missing]

EmptyMap == [k \in {} |-> NotADict]
EmptyDict == [kind |-> "dict", entries |-> EmptyMap]
\* a JSON array (holding none of the key strings) kept as cache_data
AList == [kind |-> "list", entries |-> EmptyMap]

\* json.dump(self.cache_data, f): the members of the JSON object written
json_dump(cache) ==
    [kind |-> "object", doc |-> {<<k, cache.entries[k]>> : k \in DOMAIN cache.entries}]

\* json.load(f) of a file holding a JSON object: the dict of its members
json_load(f) ==
    [kind |-> "dict",
     entries |-> [k \in {m[1] : m \in f.doc} |-> (CHOOSE m \in f.doc : m[1] = k)[2]]]

NoFile == [kind |-> "missing", doc |-> {}]
InvalidJson == [kind |-> "invalid_json", doc |-> {}]
ScalarJson == [kind |-> "scalar", doc |-> {}]
ArrayJson == [kind |-> "array", doc |-> {}]
ObjectJson(members) == [kind |-> "object", doc |-> members]

\* _load_cache, entered with cache_data = {}: the cache and the file after it.
\* rename_ok: whether os.rename to the backup name succeeds.
load_cache(f, rename_ok) ==
    IF f.kind = "missing" THEN [cache |-> EmptyDict, file |-> f]
    ELSE IF f.kind = "invalid_json"
         THEN [cache |-> EmptyDict, file |-> IF rename_ok THEN NoFile ELSE f]
    \* json.load succeeds; len(self.cache_data) in the debug line raises
    \* TypeError for a number, a boolean or null: except Exception
    ELSE IF f.kind = "scalar" THEN [cache |-> EmptyDict, file |-> f]
    ELSE IF f.kind = "array" THEN [cache |-> AList, file |-> f]
    ELSE [cache |-> json_load(f), file |-> f]

\* How open(cache_file_path, 'w') and json.dump may end: the file is written;
\* open fails and the file stays as it was; the write breaks off after open
\* has truncated the file, leaving text that is not JSON.
WriteOutcomes == {"ok", "open_failed", "partial"}

save_cache_skipped(cache, f, write) == f

\* _save_cache: the file after it; both except clauses swallow the failure
save_cache(cache, f, write) ==
    IF write = "ok" THEN json_dump(cache)
    ELSE IF write = "open_failed" THEN f
    ELSE InvalidJson

is_cache_valid_never(cache, cache_key, t, dur) == "false"

\* _is_cache_valid: "true", "false", or "raised" when current_time - timestamp
\* is a TypeError (a timestamp that is a string or null)
is_cache_valid(cache, cache_key, t, dur) ==
    IF cache.kind = "list" THEN "false"
    ELSE IF cache_key \notin DOMAIN cache.entries THEN "false"
    ELSE LET cache_entry == cache.entries[cache_key]
         IN  IF \/ ~cache_entry.dict
                \/ cache_entry.timestamp.t = "missing"
                \/ cache_entry.data.t = "missing"
             THEN "false"
             ELSE IF cache_entry.timestamp.t # "num" THEN "raised"
             ELSE IF RGe(RSub(R(t), cache_entry.timestamp.v), R(dur)) THEN "false"
             ELSE "true"

\* What _make_request gives get_rent_estimate: APIError, a parsed body that is
\* not a JSON object, or a JSON object with its 'rent' member.
ApiError == [kind |-> "api_error", rent |-> Missing]
NotObject == [kind |-> "not_object", rent |-> Missing]
Body(rent) == [kind |-> "object", rent |-> rent]
NoResponse == [kind |-> "no_request", rent |-> Missing]

rent_from_response_default0(resp) ==
    IF resp.rent.t \in {"missing", "null"} THEN Value(Zero)
    ELSE LET fl == ToFloat(resp.rent)
         IN  IF fl.ok THEN Value(fl.v) ELSE Raised

\* response_data.get('rent') and float(rent_estimate): None when there is no
\* rent, the float, or "raised" for the ValueError / TypeError of float()
rent_from_response(resp) ==
    IF resp.rent.t \in {"missing", "null"} THEN None
    ELSE LET fl == ToFloat(resp.rent)
         IN  IF fl.ok THEN Value(fl.v) ELSE Raised

store_entry_dropped(cache, cache_key, t, rent) == cache

\* self.cache_data[cache_key] = {'timestamp': now, 'data': rent_estimate_float}
store_entry(cache, cache_key, t, rent) ==
    [kind |-> "dict",
     entries |-> [k \in DOMAIN cache.entries \cup {cache_key} |->
                     IF k = cache_key THEN Entry(Num(R(t)), Num(rent))
                     ELSE cache.entries[k]]]

cached_value_wrong_field(cache_entry) ==
    IF cache_entry.data.t = "num" THEN Value(cache_entry.timestamp.v) ELSE Raised

\* cached_estimate = self.cache_data[cache_key]['data'], formatted with :.2f
\* in the log line (ValueError / TypeError unless it is a number), returned
cached_value(cache_entry) ==
    IF cache_entry.data.t = "num" THEN Value(cache_entry.data.v) ELSE Raised

Outcome_retrying(ret, req, cache, f, did_store) ==
    [ret |-> ret, requested |-> req, cache |-> cache, file |-> f, stored |-> did_store,
     requests |-> IF req THEN (IF ret.t = "value" THEN 1 ELSE 2) ELSE 0]

\* what one get_rent_estimate call leaves behind: the value returned, the
\* number of _make_request calls it made (the one at line 394, or none), the
\* cache and the file after it, and whether it stored an entry
Outcome(ret, req, cache, f, did_store) ==
    [ret |-> ret, requested |-> req, cache |-> cache, file |-> f, stored |-> did_store,
     requests |-> IF req THEN 1 ELSE 0]

\* get_rent_estimate(zip_code, bedrooms) at time t, resp being what the
\* external request gives if one is made and write how a write of the file ends
get_rent_estimate(cache, f, t, dur, zip_code, bedrooms, resp, write) ==
    LET cache_key == CacheKey(zip_code, bedrooms)
        valid == is_cache_valid(cache, cache_key, t, dur)
    IN  IF valid = "raised" THEN Outcome(Raised, FALSE, cache, f, FALSE)
        ELSE IF valid = "true"
        THEN Outcome(cached_value(cache.entries[cache_key]), FALSE, cache, f, FALSE)
        ELSE IF resp.kind = "api_error" THEN Outcome(None, TRUE, cache, f, FALSE)
        \* response_data.get: AttributeError, caught by neither except clause
        ELSE IF resp.kind = "not_object" THEN Outcome(Raised, TRUE, cache, f, FALSE)
        ELSE LET rent == rent_from_response(resp)
             IN  IF rent.t # "value" THEN Outcome(None, TRUE, cache, f, FALSE)
                 \* list[str] = ...: TypeError, caught, returns None
                 ELSE IF cache.kind = "list" THEN Outcome(None, TRUE, cache, f, FALSE)
                 ELSE LET c2 == store_entry(cache, cache_key, t, rent.v)
                      IN  Outcome(rent, TRUE, c2, save_cache(c2, f, write), TRUE)

\* What requests.request does for one call: it raises a
\* requests.exceptions.RequestException, it raises an exception of another
\* class, or it returns a response with a status code and a body.  json_error
\* is the class response.json() raises for a body that is not JSON:
\* "JSONDecodeError" (json.JSONDecodeError or the subclass of requests), or
\* "ValueError" (the decoder of simplejson, which older requests use when it
\* is installed).
Raises(class) == [raised |-> class, status_code |-> 0, body |-> "none",
                  json_error |-> "none"]
Response(status_code, body, json_error) ==
    [raised |-> "none", status_code |-> status_code, body |-> body,
     json_error |-> json_error]

\* _make_request of either client: the parsed body returned, or the class of
\* the exception that leaves it
make_request(transport) ==
    IF transport.raised = "RequestException" THEN [kind |-> "APIError", body |-> "none"]
    ELSE IF transport.raised # "none" THEN [kind |-> transport.raised, body |-> "none"]
    ELSE IF transport.status_code >= 400 THEN [kind |-> "APIError", body |-> "none"]
    ELSE IF transport.body = "not_json"
         THEN IF transport.json_error = "JSONDecodeError"
              THEN [kind |-> "APIError", body |-> "none"]
              ELSE [kind |-> transport.json_error, body |-> "none"]
    ELSE [kind |-> "returned", body |-> transport.body]

----------------------------------------------------------------------------
(* calculations.py and RealEstateOrchestrator.calculate_monthly_expenses.  *)

DEFAULT_ANNUAL_PROPERTY_TAX_PERCENT == Rat(12, 10)
DEFAULT_ANNUAL_INSURANCE_PERCENT == Rat(5, 10)
DEFAULT_MONTHLY_HOA == R(0)
DEFAULT_MONTHLY_PROPERTY_MANAGEMENT_PERCENT == R(10)
DEFAULT_MONTHLY_MAINTENANCE_PERCENT == R(5)
DEFAULT_MONTHLY_VACANCY_PERCENT == R(5)
\* estimated_rent = property_price * 0.008
ProxyRentFactor == Rat(8, 1000)

Percent(p) == RDiv(p, R(100))

calculate_monthly_expenses_no_vacancy(property_price) ==
    LET estimated_rent == RMul(property_price, ProxyRentFactor)
    IN  RAdd(RAdd(RDiv(RMul(property_price, Percent(DEFAULT_ANNUAL_PROPERTY_TAX_PERCENT)), R(12)),
                  RDiv(RMul(property_price, Percent(DEFAULT_ANNUAL_INSURANCE_PERCENT)), R(12))),
             RAdd(DEFAULT_MONTHLY_HOA,
                  RAdd(RMul(estimated_rent, Percent(DEFAULT_MONTHLY_PROPERTY_MANAGEMENT_PERCENT)),
                       RMul(estimated_rent, Percent(DEFAULT_MONTHLY_MAINTENANCE_PERCENT)))))

calculate_monthly_expenses(property_price) ==
    LET monthly_property_tax ==
            RDiv(RMul(property_price, Percent(DEFAULT_ANNUAL_PROPERTY_TAX_PERCENT)), R(12))
        monthly_insurance ==
            RDiv(RMul(property_price, Percent(DEFAULT_ANNUAL_INSURANCE_PERCENT)), R(12))
        monthly_hoa == DEFAULT_MONTHLY_HOA
        estimated_rent == RMul(property_price, ProxyRentFactor)
        monthly_property_management ==
            RMul(estimated_rent, Percent(DEFAULT_MONTHLY_PROPERTY_MANAGEMENT_PERCENT))
        monthly_maintenance ==
            RMul(estimated_rent, Percent(DEFAULT_MONTHLY_MAINTENANCE_PERCENT))
        monthly_vacancy ==
            RMul(estimated_rent, Percent(DEFAULT_MONTHLY_VACANCY_PERCENT))
    IN  RAdd(RAdd(RAdd(monthly_property_tax, monthly_insurance),
                  RAdd(monthly_hoa, monthly_property_management)),
             RAdd(monthly_maintenance, monthly_vacancy))

\* A positive binary64 rate below 12 * 2^-53 (1e-18 is one).  It is carried
\* as a tagged value, its magnitude not being representable next to the
\* other rates; n/d only orders it between 0 and them.
SubUlpRate == [n |-> 1, d |-> 1, exp10 |-> -18]

\* 1 + interest_rate_decimal / 12.0 == 1.0 in binary64
absorbed_by_one(interest_rate) == "exp10" \in DOMAIN interest_rate

RECURSIVE BitLen(_)
BitLen(i) == IF i < 2 THEN 1 ELSE 1 + BitLen(i \div 2)

\* base^k is a fraction of the model's integers
PowFits(base, k) ==
    k * BitLen(Abs(base.n)) <= 30 /\ k * BitLen(base.d) <= 30

\* decimal places carried while a rounded power is computed, and returned
PowScale == 10^5
PowDigits == 10^3

\* n * base^k in whole units, rounded down after every multiplication
RECURSIVE FixedTimes(_, _, _)
FixedTimes(n, base, k) ==
    IF k = 0 THEN n
    ELSE LET m == (n * base.n) \div base.d
         IN  IF m >= 0 THEN FixedTimes(m, base, k - 1) ELSE 0

\* the same, twelve multiplications at a time
RECURSIVE FixedPow(_, _, _)
FixedPow(n, base, k) ==
    IF k <= 12 THEN FixedTimes(n, base, k)
    ELSE LET m == FixedTimes(n, base, 12)
         IN  IF m >= 0 THEN FixedPow(m, base, k - 12) ELSE 0

\* math.pow(base, k) for base > 0: the power itself where it is a fraction of
\* the model's integers, else the power rounded to three decimal places
\* (binary64 rounds it to 53 bits)
math_pow(base, k) ==
    IF PowFits(base, k) THEN RPow(base, k)
    ELSE Rat(FixedPow(PowScale, base, k) \div (PowScale \div PowDigits), PowDigits)

\* the branches after the two edge cases: straight-line division at rate 0,
\* else the mortgage formula inside try/except
monthly_payment(loan_amount, interest_rate, term_years) ==
    IF interest_rate = Zero
    THEN Value(RDiv(loan_amount, R(term_years * 12)))
    ELSE IF absorbed_by_one(interest_rate)
    THEN None   \* math.pow(1.0, n) - 1 == 0.0: ZeroDivisionError, caught
    ELSE LET monthly_interest_rate == RDiv(interest_rate, R(12))
             number_of_payments == term_years * 12
             growth == math_pow(RAdd(R(1), monthly_interest_rate), number_of_payments)
             numerator == RMul(monthly_interest_rate, growth)
             denominator == RSub(growth, R(1))
         IN  IF denominator = Zero THEN None
             ELSE Value(RMul(loan_amount, RDiv(numerator, denominator)))

calculate_monthly_mortgage_term_first(total_price, down_payment, interest_rate, term_years) ==
    LET loan_amount == RMul(total_price, RSub(R(1), down_payment))
    IN  IF term_years <= 0 THEN None
        ELSE IF RLe(loan_amount, Zero) THEN Value(Zero)
        ELSE monthly_payment(loan_amount, interest_rate, term_years)

calculate_monthly_mortgage_zero_term(total_price, down_payment, interest_rate, term_years) ==
    LET loan_amount == RMul(total_price, RSub(R(1), down_payment))
    IN  IF RLe(loan_amount, Zero) THEN Value(Zero)
        ELSE IF term_years < 0 THEN None
        ELSE IF term_years = 0 THEN Value(Zero)
        ELSE monthly_payment(loan_amount, interest_rate, term_years)

\* None, or the payment
calculate_monthly_mortgage(total_price, down_payment, interest_rate, term_years) ==
    LET loan_amount == RMul(total_price, RSub(R(1), down_payment))
    IN  IF RLe(loan_amount, Zero) THEN Value(Zero)
        ELSE IF term_years <= 0 THEN None
        ELSE monthly_payment(loan_amount, interest_rate, term_years)

calculate_cash_flow_falsy(monthly_rent, monthly_mortgage, monthly_expenses) ==
    IF \/ monthly_rent.t = "none" \/ monthly_mortgage.t = "none"
       \/ monthly_rent.v = Zero \/ monthly_mortgage.v = Zero
    THEN None
    ELSE Value(RSub(RSub(monthly_rent.v, monthly_mortgage.v), monthly_expenses))

calculate_cash_flow(monthly_rent, monthly_mortgage, monthly_expenses) ==
    IF monthly_rent.t = "none" \/ monthly_mortgage.t = "none" THEN None
    ELSE Value(RSub(RSub(monthly_rent.v, monthly_mortgage.v), monthly_expenses))

calculate_coc_return_positive_only(total_price, down_payment, annual_cash_flow) ==
    LET cash_invested == RMul(total_price, down_payment)
    IN  IF RLe(cash_invested, Zero) THEN None
        ELSE IF annual_cash_flow.t = "none" THEN None
        ELSE IF RLe(annual_cash_flow.v, Zero) THEN None
        ELSE Value(RMul(RDiv(annual_cash_flow.v, cash_invested), R(100)))

calculate_coc_return(total_price, down_payment, annual_cash_flow) ==
    LET cash_invested == RMul(total_price, down_payment)
    IN  IF RLe(cash_invested, Zero) THEN None
        ELSE IF annual_cash_flow.t = "none" THEN None
        ELSE Value(RMul(RDiv(annual_cash_flow.v, cash_invested), R(100)))

----------------------------------------------------------------------------
(* RealEstateOrchestrator.process_zip_codes.                               *)

\* home_type as listing.get('home_type', '') finds it: a string, or None
HomeType(s) == [t |-> "str", s |-> s]
HomeTypeNone == [t |-> "null", s |-> ""]

\* str.lower() on the home types of the model
Lower(s) ==
    CASE s = "SINGLE_FAMILY" -> "single_family"
      [] s = "MULTI_FAMILY" -> "multi_family"
      [] s = "MultiFamily" -> "multifamily"
      [] s = "CONDO" -> "condo"
      [] OTHER -> s

Listing(address, price, bedrooms, home_type) ==
    [address |-> address, price |-> price, bedrooms |-> bedrooms, home_type |-> home_type]

\* price = float(price); price <= 0 skips
price_ok(price) ==
    /\ price.t \notin {"missing", "null"}
    /\ ToFloat(price).ok
    /\ ~RLe(ToFloat(price).v, Zero)

bedrooms_ok_allow_zero(bedrooms) ==
    /\ bedrooms.t \notin {"missing", "null"}
    /\ ToInt(bedrooms).ok
    /\ ~(ToInt(bedrooms).v < 0)

\* bedrooms = int(bedrooms); bedrooms <= 0 skips
bedrooms_ok(bedrooms) ==
    /\ bedrooms.t \notin {"missing", "null"}
    /\ ToInt(bedrooms).ok
    /\ ~(ToInt(bedrooms).v <= 0)

home_type_ok_any(home_type) == home_type # ""

\* home_type in ("singlefamily", "multifamily")
home_type_ok(home_type) == home_type \in {"singlefamily", "multifamily"}

\* The loop body up to the rent lookup: the step that ends it, or "ok"
validate(listing) ==
    IF listing.home_type.t = "null" THEN "raised"    \* None.lower(): AttributeError
    ELSE IF ~price_ok(listing.price) THEN "price"
    ELSE IF ~bedrooms_ok(listing.bedrooms) THEN "bedrooms"
    ELSE IF ~home_type_ok(Lower(listing.home_type.s)) THEN "home_type"
    ELSE "ok"

estimated_annual_cash_flow_by_days(monthly_cash_flow) ==
    RMul(RDiv(monthly_cash_flow, R(30)), R(365))

\* annual_cash_flow = monthly_cash_flow * 12.0
estimated_annual_cash_flow(monthly_cash_flow) == RMul(monthly_cash_flow, R(12))

\* The loop body after a rent estimate was obtained: the step that skips the
\* listing, or "scored" with property_data
score(listing, zip_code, rent_estimate, down_payment, interest_rate, term_years) ==
    LET price == ToFloat(listing.price).v
        bedrooms == ToInt(listing.bedrooms).v
        home_type == Lower(listing.home_type.s)
        monthly_expenses == calculate_monthly_expenses(price)
        monthly_mortgage ==
            calculate_monthly_mortgage(price, down_payment, interest_rate, term_years)
        monthly_cash_flow ==
            calculate_cash_flow(Value(rent_estimate), monthly_mortgage, monthly_expenses)
        annual_cash_flow == estimated_annual_cash_flow(monthly_cash_flow.v)
        coc_return == calculate_coc_return(price, down_payment, Value(annual_cash_flow))
        skip(step) == [outcome |-> step, property_data |-> <<>>]
    IN  IF monthly_mortgage.t = "none" THEN skip("mortgage")
        ELSE IF monthly_cash_flow.t = "none" THEN skip("cash_flow")
        ELSE IF coc_return.t = "none" THEN skip("coc")
        ELSE [outcome |-> "scored",
              property_data |-> <<
                [address |-> listing.address,
                 price |-> price,
                 bedrooms |-> bedrooms,
                 property_type |-> IF home_type = "singlefamily"
                                   THEN "Single Family" ELSE "Multifamily",
                 estimated_rent |-> rent_estimate,
                 estimated_mortgage |-> monthly_mortgage.v,
                 monthly_expenses |-> monthly_expenses,
                 estimated_monthly_cash_flow |-> monthly_cash_flow.v,
                 estimated_annual_cash_flow |-> annual_cash_flow,
                 estimated_coc_return |-> coc_return.v,
                 zip_code |-> zip_code] >>]

passes_filter_strict(prop, min_coc, min_cf) ==
    /\ RLt(min_coc, prop.estimated_coc_return)
    /\ RLt(min_cf, prop.estimated_monthly_cash_flow)

\* passes_coc and passes_cf
passes_filter(prop, min_coc, min_cf) ==
    /\ RGe(prop.estimated_coc_return, min_coc)
    /\ RGe(prop.estimated_monthly_cash_flow, min_cf)

RECURSIVE filter_properties(_, _, _)
filter_properties(props, min_coc, min_cf) ==
    IF props = <<>> THEN <<>>
    ELSE LET rest == filter_properties(Tail(props), min_coc, min_cf)
         IN  IF passes_filter(Head(props), min_coc, min_cf)
             THEN <<Head(props)>> \o rest ELSE rest

----------------------------------------------------------------------------
(* main.py: load_zip_codes and main; config.validate_config.               *)

\* Text is a sequence of one-character strings.
IsSpace(c) == c \in {" ", "\t", "\n", "\r"}
IsDigit(c) == c \in {"0", "1", "2", "3", "4", "5", "6", "7", "8", "9"}

RECURSIVE lstrip(_)
lstrip(text) ==
    IF text # <<>> /\ IsSpace(Head(text)) THEN lstrip(Tail(text)) ELSE text

RECURSIVE rstrip(_)
rstrip(text) ==
    IF text # <<>> /\ IsSpace(text[Len(text)])
    THEN rstrip(SubSeq(text, 1, Len(text) - 1)) ELSE text

\* str.strip()
strip(text) == rstrip(lstrip(text))

\* str.split(sep): the pieces between the separators, empty ones included
RECURSIVE split(_, _)
split(text, sep) ==
    IF \A i \in 1..Len(text) : text[i] # sep THEN <<text>>
    ELSE LET i == CHOOSE j \in 1..Len(text) :
                      text[j] = sep /\ \A h \in 1..(j - 1) : text[h] # sep
         IN  <<SubSeq(text, 1, i - 1)>> \o split(SubSeq(text, i + 1, Len(text)), sep)

\* `for line in f`: the lines of the file, each with its line end
RECURSIVE readlines(_)
readlines(text) ==
    IF text = <<>> THEN <<>>
    ELSE IF \A i \in 1..Len(text) : text[i] # "\n" THEN <<text>>
    ELSE LET i == CHOOSE j \in 1..Len(text) :
                      text[j] = "\n" /\ \A h \in 1..(j - 1) : text[h] # "\n"
         IN  <<SubSeq(text, 1, i)>> \o readlines(SubSeq(text, i + 1, Len(text)))

\* [x.strip() for x in pieces if x.strip()]
RECURSIVE stripped_nonempty(_)
stripped_nonempty(pieces) ==
    IF pieces = <<>> THEN <<>>
    ELSE LET x == strip(Head(pieces))
         IN  (IF x = <<>> THEN <<>> ELSE <<x>>) \o stripped_nonempty(Tail(pieces))

zip_pattern_match_any_length(text) == \A i \in 1..Len(text) : IsDigit(text[i])

\* re.compile(r'^\d{5}$').match: five digits, then the end of the string or
\* a line end that is its last character
zip_pattern_match(text) ==
    /\ Len(text) \in {5, 6}
    /\ \A i \in 1..5 : IsDigit(text[i])
    /\ Len(text) = 6 => text[6] = "\n"

RECURSIVE valid_zip_codes(_)
valid_zip_codes(zip_codes_list) ==
    IF zip_codes_list = <<>> THEN <<>>
    ELSE (IF zip_pattern_match(Head(zip_codes_list))
          THEN <<Head(zip_codes_list)>> ELSE <<>>)
         \o valid_zip_codes(Tail(zip_codes_list))

\* argparse.Namespace: --zipcodes text, or --zipfile path with what open()
\* finds there; an option not given is None
NotGiven == [given |-> FALSE, readable |-> FALSE, text |-> <<>>]
ZipCodesArg(text) == [given |-> text # <<>>, readable |-> TRUE, text |-> text]
ZipFileArg(text) == [given |-> TRUE, readable |-> TRUE, text |-> text]
UnreadableZipFile == [given |-> TRUE, readable |-> FALSE, text |-> <<>>]
Namespace(zipcodes, zipfile) == [zipcodes |-> zipcodes, zipfile |-> zipfile]

\* load_zip_codes(args)
load_zip_codes(args) ==
    IF args.zipfile.given
    THEN IF ~args.zipfile.readable THEN <<>>
         ELSE valid_zip_codes(stripped_nonempty(readlines(args.zipfile.text)))
    ELSE IF args.zipcodes.given
    THEN valid_zip_codes(stripped_nonempty(split(args.zipcodes.text, ",")))
    ELSE <<>>

\* the ZIP code string of a text
RECURSIVE Joined(_)
Joined(text) == IF text = <<>> THEN "" ELSE Head(text) \o Joined(Tail(text))

\* the settings validate_config requires
Required == {"ZILLOW_API_KEY", "ZILLOW_RAPIDAPI_HOST", "RENTCAST_API_KEY"}

\* validate_config(): the keys of the issues it reports, `unset` being the
\* required settings that are empty
validate_config(unset) == unset \cap Required

----------------------------------------------------------------------------
(* app.py: parse_zip_codes, recalculate_metrics, the session baseline and  *)
(* the shortlist.                                                          *)

\* re.split(r'[,\n]', zip_input)
RECURSIVE re_split(_)
re_split(text) ==
    IF \A i \in 1..Len(text) : text[i] \notin {",", "\n"} THEN <<text>>
    ELSE LET i == CHOOSE j \in 1..Len(text) :
                      /\ text[j] \in {",", "\n"}
                      /\ \A h \in 1..(j - 1) : text[h] \notin {",", "\n"}
         IN  <<SubSeq(text, 1, i - 1)>> \o re_split(SubSeq(text, i + 1, Len(text)))

\* the loop of parse_zip_codes over the pieces
RECURSIVE valid_zips(_)
valid_zips(raw_zips) ==
    IF raw_zips = <<>> THEN <<>>
    ELSE LET zip_code == strip(Head(raw_zips))
         IN  (IF zip_code = <<>> \/ Head(zip_code) = "#" THEN <<>>
              ELSE IF zip_pattern_match(zip_code) THEN <<zip_code>> ELSE <<>>)
             \o valid_zips(Tail(raw_zips))

\* parse_zip_codes(zip_input)
parse_zip_codes(zip_input) == valid_zips(re_split(zip_input))

\* A pandas DataFrame held under two names.  `shared` says whether the names
\* refer to one frame, so that a column written through recalc_df shows in
\* df, or to two.
df_copy_alias(df) == [shared |-> TRUE, df |-> df, recalc_df |-> df]

\* recalc_df = df.copy(): a second frame with the same rows
df_copy(df) == [shared |-> FALSE, df |-> df, recalc_df |-> df]

\* recalc_df[...] = ...: the rows of recalc_df replaced
assign(frames, rows) ==
    IF frames.shared THEN [frames EXCEPT !.df = rows, !.recalc_df = rows]
    ELSE [frames EXCEPT !.recalc_df = rows]

\* config_overrides of the recalculation handler
Overrides(rate, dp, term, expenses, rent_adjustment) ==
    [interest_rate_decimal |-> rate, down_payment_percent |-> dp,
     loan_term_years |-> term, monthly_expenses |-> expenses,
     rent_adjustment_percent |-> rent_adjustment]

\* the recalculated columns of one row; a column is empty (None / NaN) where
\* the calculator returned None
recalc_row(row, config_overrides) ==
    LET estimated_mortgage ==
            calculate_monthly_mortgage(row.price,
                                       config_overrides.down_payment_percent,
                                       config_overrides.interest_rate_decimal,
                                       config_overrides.loan_term_years)
        adjusted_rent ==
            IF config_overrides.rent_adjustment_percent # Zero
            THEN RMul(row.estimated_rent,
                      RAdd(R(1), Percent(config_overrides.rent_adjustment_percent)))
            ELSE row.estimated_rent
        monthly_cash_flow ==
            calculate_cash_flow(Value(adjusted_rent), estimated_mortgage,
                                config_overrides.monthly_expenses)
        annual_cash_flow ==
            IF monthly_cash_flow.t = "none" THEN None
            ELSE Value(RMul(monthly_cash_flow.v, R(12)))
        coc_return ==
            IF annual_cash_flow.t = "none" THEN None
            ELSE calculate_coc_return(row.price,
                                      config_overrides.down_payment_percent,
                                      annual_cash_flow)
    IN  [address |-> row.address, price |-> row.price, bedrooms |-> row.bedrooms,
         property_type |-> row.property_type, zip_code |-> row.zip_code,
         estimated_rent |-> row.estimated_rent,
         monthly_expenses |-> row.monthly_expenses,
         estimated_mortgage |-> estimated_mortgage,
         estimated_monthly_cash_flow |-> monthly_cash_flow,
         estimated_annual_cash_flow |-> annual_cash_flow,
         estimated_coc_return |-> coc_return]

\* recalculate_metrics(df, config_overrides): the frame passed in as it is
\* after the call, and the frame returned
recalculate_metrics(df, config_overrides) ==
    LET copied == df_copy(df)
        frames == assign(copied,
                         [i \in 1..Len(copied.recalc_df) |->
                              recalc_row(copied.recalc_df[i], config_overrides)])
    IN  [df |-> frames.df, recalc_df |-> frames.recalc_df]

\* st.session_state.run_config of a run
RunConfig(rate, dp, term, expenses) ==
    [interest_rate_decimal |-> rate, down_payment_percent |-> dp,
     loan_term_years |-> term, monthly_expenses |-> expenses]

\* the price calculate_monthly_expenses is sampled at for run_config
SamplePrice == R(300000)

\* 'original_results' not in st.session_state
\*      or st.session_state.get('last_run_zip_codes') != zip_codes_list
store_baseline(has_original, last_run_zip_codes, zip_codes_list) ==
    ~has_original \/ last_run_zip_codes # zip_codes_list

\* an item of the shortlist or a row of the results table: its link (the
\* zillow_url, None when the listing had none) and its address
NoLink == "None"
Item(link, address) == [link |-> link, address |-> address]

\* any(item.get('link') == property_link for item in st.session_state.shortlist)
is_already_shortlisted(shortlist, property_link) ==
    \E i \in 1..Len(shortlist) : shortlist[i].link = property_link

add_selected_unchecked(shortlist, selected_rows) == shortlist \o selected_rows

\* the loop of the Add Selected to Shortlist handler over the selected rows
RECURSIVE add_selected(_, _)
add_selected(shortlist, selected_rows) ==
    IF selected_rows = <<>> THEN shortlist
    ELSE LET original_row == Head(selected_rows)
             property_link == original_row.link
         IN  IF ~is_already_shortlisted(shortlist, property_link)
                    /\ property_link # NoLink
             THEN add_selected(Append(shortlist, original_row), Tail(selected_rows))
             ELSE add_selected(shortlist, Tail(selected_rows))

\* the loop of the Remove from Shortlist handler: the first item with the
\* link is popped, then st.rerun() ends the script
remove_item(shortlist, link) ==
    IF ~is_already_shortlisted(shortlist, link) THEN shortlist
    ELSE LET i == CHOOSE j \in 1..Len(shortlist) :
                      /\ shortlist[j].link = link
                      /\ \A h \in 1..(j - 1) : shortlist[h].link # link
         IN  SubSeq(shortlist, 1, i - 1) \o SubSeq(shortlist, i + 1, Len(shortlist))

----------------------------------------------------------------------------
(* Inputs of the model.                                                    *)

RentA == R(4281)
RentB == R(8462)

\* what the rent source may answer
Responses ==
    {ApiError, NotObject, Body(Missing), Body(Str), Body(Num(RentA)), Body(NumStr(RentB))}

K1 == CacheKey("90210", 1)
K2 == CacheKey("90210", 2)

\* an entry written one tick before the model starts
OldEntry == Entry(Num(R(-1)), Num(RentA))

\* entries a cache file may hold under a key
EntryPool ==
    {OldEntry,
     NotADict,
     Entry(Missing, Num(RentA)),
     Entry(Num(R(-1)), Missing),
     Entry(Str, Num(RentA)),
     Entry(Num(R(0)), Str)}

\* cache files the client may find when it is constructed
CacheFiles ==
    {NoFile, InvalidJson, ScalarJson, ArrayJson}
    \cup {ObjectJson(m1 \cup m2) :
            m1 \in {{}} \cup {{<<K1, e>>} : e \in EntryPool},
            m2 \in {{}, {<<K2, OldEntry>>}}}

\* the cache file two clients share, and what the rent source answers them
WorkerFiles == {NoFile, ObjectJson({<<K2, OldEntry>>})}
WorkerAnswers == {ApiError, Body(Num(RentA))}

\* cache files of the pipeline runs
RunFiles ==
    {NoFile,
     ObjectJson({<<K1, Entry(Num(R(0)), Num(RentB))>>}),
     ObjectJson({<<K1, Entry(Str, Num(RentA))>>})}

Price60k == R(60000)
Price120k == R(120000)

\* listings the listing source may return
ListingPool ==
    {Listing("a01", Num(Price60k), Num(R(1)), HomeType("singlefamily")),
     Listing("a02", NumStr(Price120k), Num(Rat(5, 2)), HomeType("MultiFamily")),
     Listing("a03", Num(Price60k), NumStr(R(2)), HomeType("SINGLE_FAMILY")),
     Listing("a04", Num(Price60k), Num(R(1)), HomeType("MULTI_FAMILY")),
     Listing("a05", Num(Price60k), Num(R(1)), HomeType("CONDO")),
     Listing("a06", Null, Num(R(1)), HomeType("singlefamily")),
     Listing("a07", Str, Num(R(1)), HomeType("singlefamily")),
     Listing("a08", Num(Zero), Num(R(1)), HomeType("singlefamily")),
     Listing("a09", Num(Price60k), Null, HomeType("singlefamily")),
     Listing("a10", Num(Price60k), NumStr(Rat(5, 2)), HomeType("singlefamily")),
     Listing("a11", Num(Price60k), Num(Rat(1, 2)), HomeType("singlefamily")),
     Listing("a12", Num(Price60k), Num(R(1)), HomeTypeNone),
     Listing("a13", Num(Price60k), Num(R(1)), HomeType("")),
     Listing("a14", Str, Null, HomeType("CONDO"))}

Assumptions(dp, rate, term, coc, cf) ==
    [down_payment_percent |-> dp, interest_rate_decimal |-> rate,
     loan_term_years |-> term, min_coc_return |-> coc, min_cash_flow |-> cf]

\* DEFAULT_* / 100 and the thresholds, as the environment may configure them
Profiles ==
    {Assumptions(Rat(1, 5), Zero, 1, R(10), R(100)),
     Assumptions(Rat(1, 5), Zero, 1, R(5), R(101)),
     Assumptions(Rat(1, 5), R(12), 1, R(10), R(100)),
     Assumptions(Rat(1, 5), Zero, 0, R(10), R(100)),
     Assumptions(Zero, Zero, 1, R(10), R(100))}

\* the fixture of test_process_zip_codes_complete_flow
TestListing ==
    Listing("123 Main St, Beverly Hills, CA 90210", Num(R(1200000)), Num(R(3)),
            HomeType("singlefamily"))
TestRent == R(7000)
TestProfile == Assumptions(Rat(1, 5), Rat(1, 20), 30, R(5), R(100))

\* a small listing source and rent source for calls that are repeated
RunsFeed ==
    {TestListing,
     Listing("a01", Num(Price60k), Num(R(1)), HomeType("singlefamily")),
     Listing("a05", Num(Price60k), Num(R(1)), HomeType("CONDO"))}
RunsAnswers == {ApiError, Body(Num(TestRent))}

\* no cache file, or one that is warm for ("90210", 1)
RunsFiles == {NoFile, ObjectJson({<<K1, Entry(Num(R(0)), Num(RentB))>>})}

MortgagePrices == {R(-100), Zero, R(100), R(300)}
MortgageDownPayments == {Zero, Rat(1, 5), R(1), Rat(6, 5)}
MortgageRates == {Zero, SubUlpRate, R(12), R(24)}
MortgageTerms == {-1, 0, 1}
CashFlowRents == {None, Value(Zero), Value(R(2000))}
CashFlowMortgages == {None, Value(Zero), Value(R(1500)), Value(R(2000))}
CashFlowExpenses == {Zero, R(300)}
CocPrices == {R(-100), Zero, R(300000)}
CocDownPayments == {Rat(-1, 5), Zero, Rat(1, 5)}
CocCashFlows == {None, Value(R(-6000)), Value(Zero), Value(R(6000))}

\* entries of a ZIP code list as a user writes them
Z90210 == <<"9", "0", "2", "1", "0">>
Z10001 == <<"1", "0", "0", "0", "1">>
ZipCores ==
    {Z90210, Z10001,
     <<"9", "0", "2", "1">>,
     <<"9", "0", "2", "1", "0", "1">>,
     <<"a", "b", "c", "d", "e">>,
     <<"#", " ", "9", "0", "2", "1", "0">>}
Padded(lead, core, trail) == [lead |-> lead, core |-> core, trail |-> trail]
ZipEntries ==
    {Padded(<<>>, c, <<>>) : c \in ZipCores}
    \cup {Padded(<<" ">>, c, <<"\t", " ">>) : c \in ZipCores}
ZipParts == UNION {[1..n -> ZipEntries] : n \in 0..MaxEntries}

\* the text of the entries, `sep` between them
RECURSIVE Render(_, _)
Render(parts, sep) ==
    IF parts = <<>> THEN <<>>
    ELSE Head(parts).lead \o Head(parts).core \o Head(parts).trail
         \o (IF Len(parts) > 1 THEN <<sep>> ELSE <<>>)
         \o Render(Tail(parts), sep)

\* where main finds the ZIP codes: --zipcodes, --zipfile, a --zipfile that
\* cannot be read; "neither" is an args object with both options None
ZipSources == {"zipcodes", "zipfile", "unreadable", "neither"}
ArgsOf(source, parts) ==
    CASE source = "zipcodes" -> Namespace(ZipCodesArg(Render(parts, ",")), NotGiven)
      [] source = "zipfile" -> Namespace(NotGiven, ZipFileArg(Render(parts, "\n")))
      [] source = "unreadable" -> Namespace(NotGiven, UnreadableZipFile)
      [] OTHER -> Namespace(NotGiven, NotGiven)

\* what the two sources may deliver during a run of main
MainFeed ==
    {Listing("a01", Num(Price60k), Num(R(1)), HomeType("singlefamily")),
     Listing("a05", Num(Price60k), Num(R(1)), HomeType("CONDO")),
     Listing("a12", Num(Price60k), Num(R(1)), HomeTypeNone)}
MainAnswers == {ApiError, NotObject, Body(Num(RentA)), Body(Num(RentB))}

\* command lines of the runs of main
MainParts ==
    {<<>>,
     <<Padded(<<>>, Z90210, <<>>)>>,
     <<Padded(<<>>, <<"9", "0", "2", "1">>, <<>>)>>,
     <<Padded(<<" ">>, Z10001, <<>>), Padded(<<>>, Z10001, <<>>)>>}

\* the two clients, and what the transport may do for a request
ApiClients == {"ZillowApiClient", "RentCastApiClient"}
Methods == {"GET", "POST"}
StatusCodes == {200, 399, 400, 404, 500}
Transports ==
    {Raises("RequestException"), Raises("Exception")}
    \cup {Response(st, b, "none") : st \in StatusCodes, b \in {"object", "array", "scalar"}}
    \cup {Response(st, "not_json", e) : st \in StatusCodes,
                                        e \in {"JSONDecodeError", "ValueError"}}

\* what the user types into the ZIP code box
AppZipInputs ==
    {Z90210,
     Z10001 \o <<"\n", "#", " ", "n">>,
     <<"9", "0", "2", "1", ",", "a">>}
\* settings of the sidebar
AppProfiles ==
    {Assumptions(Rat(1, 5), Zero, 1, R(10), R(100)),
     Assumptions(Rat(1, 4), Zero, 1, R(10), R(100))}
\* what the two sources may deliver to the web app
AppFeed ==
    {Listing("a01", Num(Price60k), Num(R(1)), HomeType("singlefamily")),
     Listing("a12", Num(Price60k), Num(R(1)), HomeTypeNone)}
AppAnswers == {ApiError, Body(Num(RentA))}
\* values of the three widgets of the sensitivity analysis
SensitivityRates == {Rat(6, 100), Rat(12, 100)}
SensitivityExpenses == {R(181)}
RentAdjustments == {Zero, R(10)}

\* links and rows of the results table, and shortlists found in the file
Links == {"u1", "u2", "u3"}
TableRows == {Item(l, "a01") : l \in Links \cup {NoLink}}
ResultTables == UNION {[1..n -> TableRows] : n \in 1..MaxRows}
SelectedRows(table, selection) ==
    SelectSeq([i \in DOMAIN table |->
                  IF i \in selection THEN table[i] ELSE Item("", "")],
              LAMBDA row : row # Item("", ""))
InitialShortlists ==
    {<<>>, <<Item("u1", "a01")>>, <<Item("u2", "a02"), Item("u1", "a01")>>}

\* arguments of process_zip_codes
ZipLists == {<<>>, <<"90210">>, <<"90210", "10001">>, <<"10001", "10001">>}

\* ZIP codes of the direct get_rent_estimate calls
CallZips == {"90210"}

\* values of RENTCAST_CACHE_DURATION_SECONDS
Durations == {1, 2}

----------------------------------------------------------------------------
(* The state machine.                                                      *)

NoCall == [made |-> FALSE, key |-> K1, resp |-> NoResponse,
           requested |-> FALSE, requests |-> 0, write |-> "ok", ret |-> None]
NotStored == [set |-> FALSE, timestamp |-> 0, v |-> Zero, reloaded |-> FALSE]
NoListing == [listing |-> Listing("", Missing, Missing, HomeType("")),
              outcome |-> "none"]
NoCalc == [fn |-> "none", args |-> <<>>, result |-> None]
NoFirst == [result |-> <<>>, missed |-> FALSE]
NoPeer == [kind |-> "none", entries |-> EmptyMap]
NoHttp == [made |-> FALSE, client |-> "none", method |-> "none",
           transport |-> Raises("none"), result |-> [kind |-> "none", body |-> "none"]]
NoCli == [stage |-> "none", unset |-> {}, source |-> "none", parts |-> <<>>,
          loaded |-> <<>>, invoked |-> FALSE, exit_code |-> -1]
NoRunConfig == RunConfig(Zero, Zero, 0, Zero)
NoSession == [has_original |-> FALSE, original_results |-> <<>>,
              last_run_zip_codes |-> <<>>, run_config |-> NoRunConfig,
              has_recalculated |-> FALSE, recalculated_results |-> <<>>,
              shortlist |-> <<>>]
NoUi == [handler |-> "none", before |-> <<>>, after |-> <<>>, result |-> <<>>,
         link |-> NoLink]

\* every write of the cache file succeeds, there is one client, and neither
\* main nor the web app is running
InitSolo ==
    /\ writes = {"ok"}
    /\ clicks = 0
    /\ peer = NoPeer
    /\ http = NoHttp
    /\ cli = NoCli
    /\ session = NoSession
    /\ ui = NoUi

\* what the two collaborators may deliver, and how often the call is repeated
InitEnv(listings, responses, repeats) ==
    /\ feed = listings
    /\ answers = responses
    /\ reruns = repeats

\* RentCastApiClient.__init__ over the file found on disk
InitClient(files, durations) ==
    /\ now = 0
    /\ cache_duration_seconds \in durations
    /\ \E f0 \in files, rename_ok \in BOOLEAN :
          /\ loaded_from = f0
          /\ cache_data = load_cache(f0, rename_ok).cache
          /\ file = load_cache(f0, rename_ok).file
    /\ stored = [k \in Keys |-> NotStored]
    /\ call = NoCall

\* RealEstateOrchestrator.__init__
InitOrchestrator(profiles) ==
    \E a \in profiles :
        /\ down_payment_percent = a.down_payment_percent
        /\ interest_rate_decimal = a.interest_rate_decimal
        /\ loan_term_years = a.loan_term_years
        /\ min_coc_return = a.min_coc_return
        /\ min_cash_flow = a.min_cash_flow

InitRun ==
    /\ pc = "idle"
    /\ zip_codes = <<>>
    /\ zi = 1
    /\ remaining = 0
    /\ requested = <<>>
    /\ delivered = 0
    /\ examined = 0
    /\ last = NoListing
    /\ all_processed_properties = <<>>
    /\ filtered_properties = <<>>
    /\ calc = NoCalc
    /\ run = 1
    /\ log = <<>>
    /\ first = NoFirst

\* the effect of one get_rent_estimate call on the client
RentLookup(zip_code, bedrooms, resp, write) ==
    LET o == get_rent_estimate(cache_data, file, now, cache_duration_seconds,
                               zip_code, bedrooms, resp, write)
        k == CacheKey(zip_code, bedrooms)
    IN  /\ cache_data' = o.cache
        /\ file' = o.file
        /\ call' = [made |-> TRUE, key |-> k,
                    resp |-> IF o.requested THEN resp ELSE NoResponse,
                    requested |-> o.requested, requests |-> o.requests,
                    write |-> IF o.stored THEN write ELSE "ok", ret |-> o.ret]
        /\ stored' = IF o.stored
                     THEN [stored EXCEPT ![k] = [set |-> TRUE, timestamp |-> now,
                                                 v |-> o.ret.v, reloaded |-> FALSE]]
                     ELSE stored
        /\ UNCHANGED <<now, cache_duration_seconds, loaded_from>>

\* a caller invokes get_rent_estimate
GetRentEstimate ==
    \E zip_code \in CallZips, bedrooms \in BedCounts, resp \in answers,
       write \in writes :
        /\ RentLookup(zip_code, bedrooms, resp, write)
        /\ UNCHANGED <<config_vars, run_vars, calc, env_vars, app_vars, rerun_vars>>

\* time passes
Tick ==
    /\ now < MaxTime
    /\ now' = now + 1
    /\ call' = NoCall
    /\ UNCHANGED <<cache_duration_seconds, file, cache_data, loaded_from,
                   stored, config_vars, run_vars, calc, env_vars, app_vars, rerun_vars>>

\* a later process constructs its RentCastApiClient over the same file
NewClient ==
    /\ \E rename_ok \in BOOLEAN :
          /\ cache_data' = load_cache(file, rename_ok).cache
          /\ file' = load_cache(file, rename_ok).file
    /\ loaded_from' = file
    /\ stored' = [k \in Keys |-> [stored[k] EXCEPT !.reloaded = stored[k].set]]
    /\ call' = NoCall
    /\ UNCHANGED <<now, cache_duration_seconds, config_vars, run_vars, calc,
                   env_vars, app_vars, rerun_vars>>

\* a caller invokes get_rent_estimate of the second client, which works on its
\* own cache_data and on the one file
PeerGetRentEstimate ==
    /\ peer.kind # "none"
    /\ \E zip_code \in CallZips, bedrooms \in BedCounts, resp \in answers,
          write \in writes :
        LET o == get_rent_estimate(peer, file, now, cache_duration_seconds,
                                   zip_code, bedrooms, resp, write)
            k == CacheKey(zip_code, bedrooms)
        IN  /\ peer' = o.cache
            /\ file' = o.file
            /\ call' = [made |-> TRUE, key |-> k,
                        resp |-> IF o.requested THEN resp ELSE NoResponse,
                        requested |-> o.requested, requests |-> o.requests,
                        write |-> IF o.stored THEN write ELSE "ok", ret |-> o.ret]
            /\ stored' = IF o.stored
                         THEN [stored EXCEPT ![k] = [set |-> TRUE, timestamp |-> now,
                                                     v |-> o.ret.v, reloaded |-> FALSE]]
                         ELSE stored
    /\ UNCHANGED <<now, cache_duration_seconds, cache_data, loaded_from, config_vars,
                   run_vars, calc, env_vars, rerun_vars, http, cli, session, ui>>

\* process_zip_codes(zips) is entered
ProcessZipCodes ==
    /\ pc = "idle"
    /\ \E zips \in ZipLists : zip_codes' = zips
    /\ pc' = "zip"
    /\ zi' = 1
    /\ all_processed_properties' = <<>>
    /\ UNCHANGED <<cache_vars, config_vars, remaining, requested, delivered,
                   examined, last, filtered_properties, calc, env_vars, app_vars,
                   rerun_vars>>

\* the first call is recorded for the call that repeats it
Recording == run = 1 /\ reruns > 0

\* the call repeats the first one
Replaying == run > 1 /\ reruns > 0

\* for zip_code in zip_codes: listings = get_listings_by_zip(zip_code)
GetListings ==
    /\ pc = "zip"
    /\ zi <= Len(zip_codes)
    /\ \E n \in IF Replaying THEN {Len(log[zi])} ELSE 0..(MaxListings - delivered) :
          /\ remaining' = n
          /\ delivered' = delivered + n
    /\ requested' = Append(requested, zip_codes[zi])
    /\ pc' = "listing"
    /\ call' = NoCall
    /\ last' = NoListing
    /\ log' = IF Recording THEN Append(log, <<>>) ELSE log
    /\ UNCHANGED <<now, cache_duration_seconds, file, cache_data, loaded_from,
                   stored, config_vars, zip_codes, zi, examined,
                   all_processed_properties, filtered_properties, calc,
                   env_vars, app_vars, reruns, run, first>>

\* the listings the source may hand to the loop next: any of its listings in
\* the first call, the recorded one in a call that repeats it
NextListings ==
    IF Replaying THEN {log[zi][Len(log[zi]) - remaining + 1]} ELSE feed

\* one pass of the body of `for listing in listings`
ProcessListing ==
    /\ pc = "listing"
    /\ remaining > 0
    /\ \E listing \in NextListings :
        LET v == validate(listing)
            zip_code == zip_codes[zi]
        IN  /\ remaining' = remaining - 1
            /\ examined' = examined + 1
            /\ log' = IF Recording
                      THEN [log EXCEPT ![Len(log)] = Append(@, listing)]
                      ELSE log
            /\ IF v # "ok"
               THEN /\ last' = [listing |-> listing, outcome |-> v]
                    /\ pc' = IF v = "raised" THEN "raised" ELSE pc
                    /\ call' = NoCall
                    /\ UNCHANGED <<now, cache_duration_seconds, file, cache_data,
                                   loaded_from, stored,
                                   all_processed_properties, first>>
               ELSE \E resp \in answers, write \in writes :
                    /\ RentLookup(zip_code, ToInt(listing.bedrooms).v, resp, write)
                    /\ LET rent == call'.ret
                           s == score(listing, zip_code, rent.v, down_payment_percent,
                                      interest_rate_decimal, loan_term_years)
                       IN  /\ first' = IF Recording /\ rent.t = "none"
                                       THEN [first EXCEPT !.missed = TRUE]
                                       ELSE first
                           /\ IF rent.t = "raised"
                              THEN /\ last' = [listing |-> listing, outcome |-> "raised"]
                                   /\ pc' = "raised"
                                   /\ UNCHANGED all_processed_properties
                              ELSE IF rent.t = "none"
                              THEN /\ last' = [listing |-> listing, outcome |-> "rent"]
                                   /\ pc' = pc
                                   /\ UNCHANGED all_processed_properties
                              ELSE /\ last' = [listing |-> listing, outcome |-> s.outcome]
                                   /\ pc' = pc
                                   /\ all_processed_properties' =
                                          all_processed_properties \o s.property_data
    /\ UNCHANGED <<config_vars, zip_codes, zi, requested, delivered,
                   filtered_properties, calc, env_vars, app_vars, reruns, run>>

\* the listings of the current ZIP code are exhausted
NextZip ==
    /\ pc = "listing"
    /\ remaining = 0
    /\ zi' = zi + 1
    /\ pc' = "zip"
    /\ call' = NoCall
    /\ last' = NoListing
    /\ UNCHANGED <<now, cache_duration_seconds, file, cache_data, loaded_from,
                   stored, config_vars, zip_codes, remaining,
                   requested, delivered, examined, all_processed_properties,
                   filtered_properties, calc, env_vars, app_vars, rerun_vars>>

\* the filter loop and the return
FilterAndReturn ==
    /\ pc = "zip"
    /\ zi > Len(zip_codes)
    /\ filtered_properties' =
           filter_properties(all_processed_properties, min_coc_return, min_cash_flow)
    /\ pc' = "done"
    /\ UNCHANGED <<cache_vars, config_vars, zip_codes, zi, remaining, requested,
                   delivered, examined, last, all_processed_properties, calc,
                   env_vars, app_vars, rerun_vars>>

\* process_zip_codes is called again on the same orchestrator with the same
\* argument; the listing source returns what it returned to the first call
Rerun ==
    /\ pc = "done"
    /\ run <= reruns
    /\ run' = run + 1
    /\ first' = [first EXCEPT !.result = filtered_properties]
    /\ pc' = "zip"
    /\ zi' = 1
    /\ remaining' = 0
    /\ requested' = <<>>
    /\ delivered' = 0
    /\ examined' = 0
    /\ call' = NoCall
    /\ last' = NoListing
    /\ all_processed_properties' = <<>>
    /\ filtered_properties' = <<>>
    /\ UNCHANGED <<now, cache_duration_seconds, file, cache_data, loaded_from,
                   stored, config_vars, zip_codes, calc, env_vars, app_vars, reruns, log>>

DefaultProfile == Assumptions(Rat(1, 5), Zero, 1, R(10), R(100))

\* The client alone: calls, the passing of time, later instances.
InitCache ==
    /\ InitClient(CacheFiles, Durations)
    /\ InitEnv(ListingPool, Responses, 0)
    /\ InitOrchestrator({DefaultProfile})
    /\ InitRun
    /\ InitSolo
NextCache == GetRentEstimate \/ Tick \/ NewClient
SpecCache == InitCache /\ [][NextCache]_vars

\* Two clients constructed over one cache file, each having loaded it.
InitWorkers ==
    /\ InitClient(WorkerFiles, {2})
    /\ InitEnv(ListingPool, WorkerAnswers, 0)
    /\ InitOrchestrator({DefaultProfile})
    /\ InitRun
    /\ writes = {"ok"}
    /\ clicks = 0
    /\ peer = load_cache(file, TRUE).cache
    /\ http = NoHttp
    /\ cli = NoCli
    /\ session = NoSession
    /\ ui = NoUi
NextWorkers == GetRentEstimate \/ PeerGetRentEstimate \/ Tick
SpecWorkers == InitWorkers /\ [][NextWorkers]_vars

\* The client alone, over a disk on which a write may fail.
InitDisk ==
    /\ InitClient(WorkerFiles, {2})
    /\ InitEnv(ListingPool, WorkerAnswers, 0)
    /\ InitOrchestrator({DefaultProfile})
    /\ InitRun
    /\ writes = WriteOutcomes
    /\ clicks = 0
    /\ peer = NoPeer
    /\ http = NoHttp
    /\ cli = NoCli
    /\ session = NoSession
    /\ ui = NoUi
NextDisk == GetRentEstimate \/ Tick \/ NewClient
SpecDisk == InitDisk /\ [][NextDisk]_vars

\* The calculators of calculations.py, called on their own.
CalculateMonthlyMortgage ==
    /\ \E total_price \in MortgagePrices, down_payment \in MortgageDownPayments,
          interest_rate \in MortgageRates, term_years \in MortgageTerms :
          calc' = [fn |-> "calculate_monthly_mortgage",
                   args |-> <<total_price, down_payment, interest_rate, term_years>>,
                   result |-> calculate_monthly_mortgage(total_price, down_payment,
                                                         interest_rate, term_years)]
    /\ UNCHANGED <<cache_vars, config_vars, run_vars, env_vars, app_vars, rerun_vars>>

CalculateCashFlow ==
    /\ \E monthly_rent \in CashFlowRents, monthly_mortgage \in CashFlowMortgages,
          monthly_expenses \in CashFlowExpenses :
          calc' = [fn |-> "calculate_cash_flow",
                   args |-> <<monthly_rent, monthly_mortgage, monthly_expenses>>,
                   result |-> calculate_cash_flow(monthly_rent, monthly_mortgage,
                                                  monthly_expenses)]
    /\ UNCHANGED <<cache_vars, config_vars, run_vars, env_vars, app_vars, rerun_vars>>

CalculateCocReturn ==
    /\ \E total_price \in CocPrices, down_payment \in CocDownPayments,
          annual_cash_flow \in CocCashFlows :
          calc' = [fn |-> "calculate_coc_return",
                   args |-> <<total_price, down_payment, annual_cash_flow>>,
                   result |-> calculate_coc_return(total_price, down_payment,
                                                   annual_cash_flow)]
    /\ UNCHANGED <<cache_vars, config_vars, run_vars, env_vars, app_vars, rerun_vars>>

InitCalc ==
    /\ InitClient({NoFile}, {2})
    /\ InitEnv(ListingPool, Responses, 0)
    /\ InitOrchestrator({DefaultProfile})
    /\ InitRun
    /\ InitSolo
NextCalc == CalculateMonthlyMortgage \/ CalculateCashFlow \/ CalculateCocReturn
SpecCalc == InitCalc /\ [][NextCalc]_vars

\* process_zip_codes called once and then once more, over the small sources.
InitRuns ==
    /\ InitClient(RunsFiles, {2})
    /\ InitEnv(RunsFeed, RunsAnswers, 1)
    /\ InitOrchestrator({TestProfile})
    /\ InitRun
    /\ InitSolo
NextRuns ==
    ProcessZipCodes \/ GetListings \/ ProcessListing \/ NextZip \/ FilterAndReturn
        \/ Rerun
SpecRuns == InitRuns /\ [][NextRuns]_vars

\* _make_request(method, endpoint) of one of the clients, called on its own
MakeRequest ==
    /\ \E client \in ApiClients, method \in Methods, transport \in Transports :
          http' = [made |-> TRUE, client |-> client, method |-> method,
                   transport |-> transport, result |-> make_request(transport)]
    /\ UNCHANGED <<cache_vars, config_vars, run_vars, calc, env_vars, rerun_vars,
                   peer, cli, session, ui>>

InitHttp ==
    /\ InitClient({NoFile}, {2})
    /\ InitEnv(ListingPool, Responses, 0)
    /\ InitOrchestrator({DefaultProfile})
    /\ InitRun
    /\ InitSolo
NextHttp == MakeRequest
SpecHttp == InitHttp /\ [][NextHttp]_vars

\* Run Analysis is clicked: parse_zip_codes, st.stop() when no ZIP code is
\* valid, otherwise a new RealEstateOrchestrator (whose RentCastApiClient loads
\* the cache file) with the settings of the sidebar, and process_zip_codes is
\* entered
RunAnalysis ==
    /\ pc \in {"idle", "shown", "stopped"}
    /\ (IF pc = "idle" THEN 0 ELSE run) < clicks
    /\ run' = IF pc = "idle" THEN 1 ELSE run + 1
    /\ \E zip_input \in AppZipInputs, a \in AppProfiles, rename_ok \in BOOLEAN :
        LET zip_codes_list == parse_zip_codes(zip_input)
        IN  IF zip_codes_list = <<>>
            THEN /\ pc' = "stopped"
                 /\ ui' = [NoUi EXCEPT !.handler = "stop"]
                 /\ UNCHANGED <<cache_vars, config_vars, zip_codes, zi, remaining,
                                requested, delivered, examined, last,
                                all_processed_properties, filtered_properties>>
            ELSE /\ cache_data' = load_cache(file, rename_ok).cache
                 /\ file' = load_cache(file, rename_ok).file
                 /\ loaded_from' = file
                 /\ stored' = [k \in Keys |->
                                  [stored[k] EXCEPT !.reloaded = stored[k].set]]
                 /\ call' = NoCall
                 /\ down_payment_percent' = a.down_payment_percent
                 /\ interest_rate_decimal' = a.interest_rate_decimal
                 /\ loan_term_years' = a.loan_term_years
                 /\ min_coc_return' = a.min_coc_return
                 /\ min_cash_flow' = a.min_cash_flow
                 /\ zip_codes' = [i \in 1..Len(zip_codes_list) |->
                                     Joined(zip_codes_list[i])]
                 /\ pc' = "zip"
                 /\ zi' = 1
                 /\ remaining' = 0
                 /\ requested' = <<>>
                 /\ delivered' = 0
                 /\ examined' = 0
                 /\ last' = NoListing
                 /\ all_processed_properties' = <<>>
                 /\ filtered_properties' = <<>>
                 /\ ui' = [NoUi EXCEPT !.handler = "running"]
                 /\ UNCHANGED <<now, cache_duration_seconds>>
    /\ UNCHANGED <<calc, env_vars, reruns, log, first, peer, http, cli, session>>

\* process_zip_codes has returned: the baseline of the what-if recalculation
\* is stored, and the results are shown
StoreResults ==
    /\ ui.handler = "running"
    /\ pc = "done"
    /\ session' =
           IF store_baseline(session.has_original, session.last_run_zip_codes,
                             zip_codes)
           THEN [session EXCEPT
                    !.has_original = TRUE,
                    !.original_results = filtered_properties,
                    !.last_run_zip_codes = zip_codes,
                    !.run_config =
                        RunConfig(interest_rate_decimal, down_payment_percent,
                                  loan_term_years,
                                  calculate_monthly_expenses(SamplePrice))]
           ELSE session
    /\ pc' = "shown"
    /\ ui' = [NoUi EXCEPT !.handler = "run"]
    /\ UNCHANGED <<cache_vars, config_vars, zip_codes, zi, remaining, requested,
                   delivered, examined, last, all_processed_properties,
                   filtered_properties, calc, env_vars, rerun_vars, peer, http, cli>>

\* process_zip_codes has raised: except Exception, st.stop()
RunFailed ==
    /\ ui.handler = "running"
    /\ pc = "raised"
    /\ pc' = "stopped"
    /\ ui' = [NoUi EXCEPT !.handler = "stop"]
    /\ UNCHANGED <<cache_vars, config_vars, zip_codes, zi, remaining, requested,
                   delivered, examined, last, all_processed_properties,
                   filtered_properties, calc, env_vars, rerun_vars, peer, http, cli,
                   session>>

\* Recalculate Metrics is clicked under the results of a run
Recalculate ==
    /\ pc = "shown"
    /\ filtered_properties # <<>>
    /\ session.has_original
    /\ \E rate \in SensitivityRates, expenses \in SensitivityExpenses,
          rent_adjustment \in RentAdjustments :
        LET config_overrides ==
                Overrides(rate, session.run_config.down_payment_percent,
                          session.run_config.loan_term_years, expenses,
                          rent_adjustment)
            original_df == session.original_results
            recalculated == recalculate_metrics(original_df, config_overrides)
        IN  /\ session' = [session EXCEPT
                              !.has_recalculated = TRUE,
                              !.recalculated_results = recalculated.recalc_df]
            /\ ui' = [NoUi EXCEPT !.handler = "recalculate",
                                  !.before = original_df,
                                  !.after = recalculated.df,
                                  !.result = recalculated.recalc_df]
    /\ UNCHANGED <<cache_vars, config_vars, run_vars, calc, env_vars, rerun_vars,
                   peer, http, cli>>

\* The web app: runs of the analysis and what-if recalculations.
InitApp ==
    /\ InitClient({NoFile}, {2})
    /\ feed = AppFeed
    /\ answers = AppAnswers
    /\ reruns = 0
    /\ writes = {"ok"}
    /\ clicks = MaxClicks
    /\ InitOrchestrator({DefaultProfile})
    /\ InitRun
    /\ peer = NoPeer
    /\ http = NoHttp
    /\ cli = NoCli
    /\ session = NoSession
    /\ ui = NoUi
NextApp ==
    RunAnalysis \/ GetListings \/ ProcessListing \/ NextZip \/ FilterAndReturn
        \/ StoreResults \/ RunFailed \/ Recalculate
SpecApp == InitApp /\ [][NextApp]_vars

\* Add Selected to Shortlist is clicked with some rows of the table selected
AddSelectedToShortlist ==
    /\ Len(session.shortlist) <= MaxItems
    /\ \E table \in ResultTables, selection \in SUBSET (1..MaxRows) :
        LET selected_rows == SelectedRows(table, selection)
            shortlist == add_selected(session.shortlist, selected_rows)
        IN  /\ session' = [session EXCEPT !.shortlist = shortlist]
            /\ ui' = [NoUi EXCEPT !.handler = "add",
                                  !.before = session.shortlist,
                                  !.result = selected_rows]
    /\ UNCHANGED <<cache_vars, config_vars, run_vars, calc, env_vars, rerun_vars,
                   peer, http, cli>>

\* Remove from Shortlist is clicked on an item shown in the shortlist
RemoveFromShortlist ==
    /\ \E index \in 1..Len(session.shortlist) :
        LET item == session.shortlist[index]
        IN  /\ session' = [session EXCEPT
                              !.shortlist = remove_item(session.shortlist, item.link)]
            /\ ui' = [NoUi EXCEPT !.handler = "remove",
                                  !.before = session.shortlist,
                                  !.link = item.link]
    /\ UNCHANGED <<cache_vars, config_vars, run_vars, calc, env_vars, rerun_vars,
                   peer, http, cli>>

\* The shortlist of the web app.
InitShortlist ==
    /\ InitClient({NoFile}, {2})
    /\ InitEnv(ListingPool, Responses, 0)
    /\ InitOrchestrator({DefaultProfile})
    /\ InitRun
    /\ writes = {"ok"}
    /\ clicks = 0
    /\ peer = NoPeer
    /\ http = NoHttp
    /\ cli = NoCli
    /\ \E shortlist \in InitialShortlists :
          session = [NoSession EXCEPT !.shortlist = shortlist]
    /\ ui = NoUi
NextShortlist == AddSelectedToShortlist \/ RemoveFromShortlist
SpecShortlist == InitShortlist /\ [][NextShortlist]_vars

\* load_zip_codes(args), called on its own
LoadZipCodes ==
    /\ cli.stage = "none"
    /\ \E source \in ZipSources, parts \in ZipParts :
          cli' = [NoCli EXCEPT !.stage = "loaded", !.source = source,
                               !.parts = parts,
                               !.loaded = load_zip_codes(ArgsOf(source, parts))]
    /\ UNCHANGED <<cache_vars, config_vars, run_vars, calc, env_vars, rerun_vars,
                   peer, http, session, ui>>

InitZips ==
    /\ InitClient({NoFile}, {2})
    /\ InitEnv(ListingPool, Responses, 0)
    /\ InitOrchestrator({DefaultProfile})
    /\ InitRun
    /\ InitSolo
NextZips == LoadZipCodes
SpecZips == InitZips /\ [][NextZips]_vars

\* main() up to the call of process_zip_codes: validate_config, then
\* parse_arguments (which ends the process with code 2 when neither option is
\* given), then load_zip_codes
Main ==
    /\ cli.stage = "none"
    /\ pc = "idle"
    /\ \E unset \in SUBSET Required, source \in ZipSources, parts \in MainParts :
        LET started == [NoCli EXCEPT !.unset = unset, !.source = source,
                                     !.parts = parts]
            exited(code) == [started EXCEPT !.stage = "exited", !.exit_code = code]
            loaded == load_zip_codes(ArgsOf(source, parts))
        IN  IF validate_config(unset) # {}
            THEN /\ cli' = exited(1)
                 /\ UNCHANGED <<pc, zip_codes, zi, all_processed_properties>>
            ELSE IF source = "neither"
            THEN /\ cli' = exited(2)
                 /\ UNCHANGED <<pc, zip_codes, zi, all_processed_properties>>
            ELSE IF loaded = <<>>
            THEN /\ cli' = exited(1)
                 /\ UNCHANGED <<pc, zip_codes, zi, all_processed_properties>>
            ELSE /\ cli' = [started EXCEPT !.stage = "running", !.loaded = loaded,
                                           !.invoked = TRUE]
                 /\ zip_codes' = [i \in 1..Len(loaded) |-> Joined(loaded[i])]
                 /\ pc' = "zip"
                 /\ zi' = 1
                 /\ all_processed_properties' = <<>>
    /\ UNCHANGED <<cache_vars, config_vars, remaining, requested, delivered,
                   examined, last, filtered_properties, calc, env_vars, rerun_vars,
                   peer, http, session, ui>>

\* main() after process_zip_codes: save_results_to_csv returns a path or
\* None and never raises; an exception out of process_zip_codes reaches
\* `except Exception` and main returns 1
MainReturn ==
    /\ cli.stage = "running"
    /\ pc \in {"done", "raised"}
    /\ cli' = [cli EXCEPT !.stage = "exited",
                          !.exit_code = IF pc = "raised" THEN 1 ELSE 0]
    /\ UNCHANGED <<cache_vars, config_vars, run_vars, calc, env_vars, rerun_vars,
                   peer, http, session, ui>>

\* One run of the command-line program.
InitMain ==
    /\ InitClient(RunsFiles, {2})
    /\ InitEnv(MainFeed, MainAnswers, 0)
    /\ InitOrchestrator({DefaultProfile})
    /\ InitRun
    /\ InitSolo
NextMain ==
    Main \/ GetListings \/ ProcessListing \/ NextZip \/ FilterAndReturn
        \/ MainReturn
SpecMain == InitMain /\ [][NextMain]_vars

\* One run of process_zip_codes.
Init ==
    /\ InitClient(RunFiles, {2})
    /\ InitEnv(ListingPool, Responses, 0)
    /\ InitOrchestrator(Profiles)
    /\ InitRun
    /\ InitSolo
Next == ProcessZipCodes \/ GetListings \/ ProcessListing \/ NextZip \/ FilterAndReturn
Spec == Init /\ [][Next]_vars

----------------------------------------------------------------------------
(* Properties of process_zip_codes, checked under Spec.                    *)

InSeq(x, q) == \E i \in 1..Len(q) : q[i] = x

\* C1: when process_zip_codes has returned, a scored property is in the
\* returned list if and only if its cash-on-cash return is at least
\* min_coc_return and its monthly cash flow is at least min_cash_flow (both
\* inclusive); nothing else is returned and no passing property is dropped.
C1_FilterIff ==
    pc = "done" =>
        /\ \A i \in 1..Len(all_processed_properties) :
              LET prop == all_processed_properties[i]
              IN  InSeq(prop, filtered_properties)
                  <=> /\ RLe(min_coc_return, prop.estimated_coc_return)
                      /\ RLe(min_cash_flow, prop.estimated_monthly_cash_flow)
        /\ \A j \in 1..Len(filtered_properties) :
              InSeq(filtered_properties[j], all_processed_properties)
        /\ Len(filtered_properties) =
              Cardinality({i \in 1..Len(all_processed_properties) :
                  /\ RLe(min_coc_return,
                         all_processed_properties[i].estimated_coc_return)
                  /\ RLe(min_cash_flow,
                         all_processed_properties[i].estimated_monthly_cash_flow)})

\* a run that returned a property sitting exactly on both thresholds and
\* dropped another one
C1_Witness ==
    /\ pc = "done"
    /\ Len(filtered_properties) < Len(all_processed_properties)
    /\ \E j \in 1..Len(filtered_properties) :
          /\ filtered_properties[j].estimated_coc_return = min_coc_return
          /\ filtered_properties[j].estimated_monthly_cash_flow = min_cash_flow

\* C2: no per-listing failure aborts the batch: process_zip_codes never
\* raises, and when it has returned it has requested the listings of every
\* input ZIP code, in order, and examined every listing it was given.
C2_NeverAborts ==
    /\ pc # "raised"
    /\ pc = "done" => (requested = zip_codes /\ examined = delivered)

\* the category of a listing as the claim reads it, spelled either way
Category(home_type) ==
    CASE Lower(home_type) \in {"single_family", "singlefamily"} -> "single_family"
      [] Lower(home_type) \in {"multi_family", "multifamily"} -> "multi_family"
      [] OTHER -> "other"

\* C9: a listing with a valid price and a valid bedroom count passes the
\* category validation if and only if its category is single_family or
\* multi_family, in the form the listing source delivers it.
C9_CategoryIff ==
    (/\ last.outcome \notin {"none", "raised"}
     /\ last.listing.home_type.t = "str"
     /\ price_ok(last.listing.price)
     /\ bedrooms_ok(last.listing.bedrooms))
    => (last.outcome # "home_type"
        <=> Category(last.listing.home_type.s) \in {"single_family", "multi_family"})

PropertiesOf(q) == {q[i] : i \in 1..Len(q)}

\* C10: every property scored or returned has price > 0 and bedrooms > 0, and
\* a listing is scored only if its raw price is a number (or numeric string)
\* above 0 and its raw bedrooms converts to a whole number above 0.
C10_ValidPriceBedrooms ==
    /\ \A prop \in PropertiesOf(all_processed_properties)
                   \cup PropertiesOf(filtered_properties) :
          prop.price.n > 0 /\ prop.bedrooms > 0
    /\ last.outcome = "scored" =>
          /\ last.listing.price.t \in {"num", "numstr"}
          /\ last.listing.price.v.n > 0
          /\ \/ last.listing.bedrooms.t = "num" /\ last.listing.bedrooms.v.n >= last.listing.bedrooms.v.d
             \/ /\ last.listing.bedrooms.t = "numstr"
                /\ last.listing.bedrooms.v.d = 1
                /\ last.listing.bedrooms.v.n > 0

\* a listing was skipped for its price or bedrooms after another was scored
C10_Witness ==
    /\ last.outcome \in {"price", "bedrooms"}
    /\ Len(all_processed_properties) >= 1

----------------------------------------------------------------------------
(* Properties of the rent-estimate cache, checked under SpecCache.         *)

HasEntry(cache, k) == cache.kind = "dict" /\ k \in DOMAIN cache.entries

\* an entry of the persisted format: {"timestamp": number, "data": number}
WellFormed(e) == e.dict /\ e.timestamp.t = "num" /\ e.data.t = "num"

\* the age of a well-formed entry at time t (timestamps are whole ticks)
Age(e, t) == t - e.timestamp.v.n

\* C3: a get_rent_estimate call that finds a well-formed entry younger than
\* cache_duration_seconds under its key returns the entry's data, makes no
\* external request and leaves cache_data and the file as they were.
C3_CachedHit ==
    [][\A k \in Keys :
          (/\ call'.made
           /\ call'.key = k
           /\ HasEntry(cache_data, k)
           /\ WellFormed(cache_data.entries[k])
           /\ Age(cache_data.entries[k], now) < cache_duration_seconds)
          => /\ call'.ret = Value(cache_data.entries[k].data.v)
             /\ ~call'.requested
             /\ cache_data' = cache_data
             /\ file' = file]_vars

\* a call was served from the cache
C3_Witness == call.made /\ ~call.requested /\ call.ret.t = "value"

\* C4: a get_rent_estimate call that finds no valid entry and whose request
\* answers with a rent value makes the key's entry exactly
\* {timestamp: now, data: value}, leaves every other key's entry alone, writes
\* the whole cache to the file and returns the value.
C4_FetchStores ==
    [][\A k \in Keys :
          (/\ call'.made
           /\ call'.key = k
           /\ call'.requested
           /\ call'.resp.kind = "object"
           /\ call'.resp.rent.t \in {"num", "numstr"})
          => /\ call'.ret = Value(call'.resp.rent.v)
             /\ HasEntry(cache_data', k)
             /\ cache_data'.entries[k] = Entry(Num(R(now)), Num(call'.resp.rent.v))
             /\ DOMAIN cache_data'.entries = DOMAIN cache_data.entries \cup {k}
             /\ \A j \in DOMAIN cache_data.entries \ {k} :
                   cache_data'.entries[j] = cache_data.entries[j]
             /\ file'.kind = "object"
             /\ file'.doc = {<<j, cache_data'.entries[j]>> :
                                j \in DOMAIN cache_data'.entries}]_vars

ClaimedValid(cache, k, t, dur) ==
    /\ HasEntry(cache, k)
    /\ cache.entries[k].dict
    /\ cache.entries[k].timestamp.t # "missing"
    /\ cache.entries[k].data.t # "missing"
    /\ cache.entries[k].timestamp.t = "num"
    /\ Age(cache.entries[k], t) < dur

\* C6: an entry is valid exactly when it has a timestamp and a data field and
\* now - timestamp < cache_duration_seconds; a get on a valid entry makes no
\* request, a get on an expired or malformed entry treats it as absent and
\* makes the external request.
C6_ValidityDecidesFetch ==
    [][\A k \in Keys :
          (call'.made /\ call'.key = k)
          => (call'.requested
              <=> ~ClaimedValid(cache_data, k, now, cache_duration_seconds))]_vars

\* a persisted store that is unreadable or not of the key -> {timestamp, data}
\* shape
MalformedStore(f) ==
    \/ f.kind \in {"invalid_json", "scalar", "array"}
    \/ f.kind = "object" /\ \E m \in f.doc : ~WellFormed(m[2])

\* no fetch has stored anything since the last load
JustLoaded == \A k \in Keys : stored[k].set => stored[k].reloaded

\* C7: a client that found an unreadable or malformed store when it loaded
\* continues with an empty cache, keeping no part of the store.
C7_MalformedStoreDiscarded ==
    (MalformedStore(loaded_from) /\ JustLoaded) => cache_data = EmptyDict

----------------------------------------------------------------------------
(* Further properties of process_zip_codes, checked under Spec.            *)

\* C11: every property scored or returned by process_zip_codes has
\* estimated_annual_cash_flow equal to estimated_monthly_cash_flow * 12.
C11_AnnualIsTwelveMonths ==
    \A prop \in PropertiesOf(all_processed_properties)
                 \cup PropertiesOf(filtered_properties) :
        prop.estimated_annual_cash_flow
            = Rat(12 * prop.estimated_monthly_cash_flow.n,
                  prop.estimated_monthly_cash_flow.d)

\* a run returned a property with a non-zero cash flow
C11_Witness ==
    /\ pc = "done"
    /\ \E prop \in PropertiesOf(filtered_properties) :
          prop.estimated_monthly_cash_flow.n # 0

\* the raw fields of a listing, read as the validation steps read them
RawPriceValid(listing) ==
    /\ listing.price.t \in {"num", "numstr"}
    /\ listing.price.v.n > 0

RawBedroomsValid(listing) ==
    \/ listing.bedrooms.t = "num" /\ listing.bedrooms.v.n >= listing.bedrooms.v.d
    \/ /\ listing.bedrooms.t = "numstr"
       /\ listing.bedrooms.v.d = 1
       /\ listing.bedrooms.v.n > 0

RawCategoryValid(listing) ==
    /\ listing.home_type.t = "str"
    /\ Lower(listing.home_type.s) \in {"singlefamily", "multifamily"}

\* int(bedrooms) of a listing whose bedrooms passed
RawBedrooms(listing) == listing.bedrooms.v.n \div listing.bedrooms.v.d

\* C12: get_rent_estimate is called only by a step that examines a listing
\* which passed the price, bedrooms and category validations, then exactly
\* once, with the ZIP code being processed and the integer bedroom count; the
\* validations reject in the order price, bedrooms, category, and a rejected
\* listing causes no call.
C12_LookupAfterValidation ==
    [][/\ call'.made =>
            /\ examined' = examined + 1
            /\ pc = "listing"
            /\ RawPriceValid(last'.listing)
            /\ RawBedroomsValid(last'.listing)
            /\ RawCategoryValid(last'.listing)
            /\ call'.key = <<zip_codes[zi], RawBedrooms(last'.listing)>>
       /\ (examined' = examined + 1 /\ last'.listing.home_type.t = "str") =>
            /\ call'.made <=> /\ RawPriceValid(last'.listing)
                              /\ RawBedroomsValid(last'.listing)
                              /\ RawCategoryValid(last'.listing)
            /\ last'.outcome = "price" <=> ~RawPriceValid(last'.listing)
            /\ last'.outcome = "bedrooms" <=>
                  RawPriceValid(last'.listing) /\ ~RawBedroomsValid(last'.listing)
            /\ last'.outcome = "home_type" <=>
                  /\ RawPriceValid(last'.listing)
                  /\ RawBedroomsValid(last'.listing)
                  /\ ~RawCategoryValid(last'.listing)
       /\ examined' = examined => ~call'.made
       /\ examined' <= delivered']_vars

\* the lookup of a listing whose bedrooms 2.5 became the key's 2, after a
\* listing was rejected without a lookup
C12_Witness ==
    /\ call.made
    /\ examined = 2
    /\ last.listing.bedrooms = Num(Rat(5, 2))
    /\ call.key = <<zip_codes[zi], 2>>

\* the six components of the expenses of a price, each from the price and
\* one configured rate
ExpenseComponents(price) ==
    <<RMul(price, RDiv(DEFAULT_ANNUAL_PROPERTY_TAX_PERCENT, R(1200))),
      RMul(price, RDiv(DEFAULT_ANNUAL_INSURANCE_PERCENT, R(1200))),
      DEFAULT_MONTHLY_HOA,
      RMul(RMul(price, Rat(8, 1000)), RDiv(DEFAULT_MONTHLY_PROPERTY_MANAGEMENT_PERCENT, R(100))),
      RMul(RMul(price, Rat(8, 1000)), RDiv(DEFAULT_MONTHLY_MAINTENANCE_PERCENT, R(100))),
      RMul(RMul(price, Rat(8, 1000)), RDiv(DEFAULT_MONTHLY_VACANCY_PERCENT, R(100)))>>

RECURSIVE SumOf(_)
SumOf(q) == IF q = <<>> THEN Zero ELSE RAdd(Head(q), SumOf(Tail(q)))

\* C18: the monthly_expenses of every scored property is the sum of the six
\* components computed from its price and the configured rates, and two
\* scored properties with the same price have the same monthly_expenses
\* whatever rents were fetched for them.
C18_ExpensesFromPriceOnly ==
    /\ \A prop \in PropertiesOf(all_processed_properties) :
          prop.monthly_expenses = SumOf(ExpenseComponents(prop.price))
    /\ \A p1, p2 \in PropertiesOf(all_processed_properties) :
          p1.price = p2.price => p1.monthly_expenses = p2.monthly_expenses

\* two scored properties of one price with different fetched rents
C18_Witness ==
    \E p1, p2 \in PropertiesOf(all_processed_properties) :
        /\ p1.price = p2.price
        /\ p1.estimated_rent # p2.estimated_rent
        /\ p1.monthly_expenses = R(181)

----------------------------------------------------------------------------
(* Properties of repeated calls, checked under SpecRuns.                   *)

\* C19: when process_zip_codes is called again with the same ZIP codes, the
\* same listings and the same assumptions, and every rent lookup of the first
\* call returned an estimate (the cache is warm and unexpired for the second),
\* the second call returns the list the first returned, makes no external
\* rent request and leaves cache_data and the file as they were.
C19_RerunIdentical ==
    [][(run' = 2 /\ ~first'.missed) =>
          /\ ~call'.requested
          /\ cache_data' = cache_data
          /\ file' = file
          /\ pc' # "raised"
          /\ pc' = "done" => filtered_properties' = first'.result]_vars

\* a second call has returned the non-empty list of the first, whose lookups
\* had fetched the rents
C19_Witness ==
    /\ run = 2
    /\ pc = "done"
    /\ ~first.missed
    /\ first.result # <<>>
    /\ filtered_properties = first.result
    /\ \E k \in Keys : stored[k].set

\* C20: with the one listing of the complete-flow test (price 1,200,000, 3
\* bedrooms, singlefamily) scored with a rent estimate of 7000 under 20% down,
\* 5% over 30 years and thresholds 100 and 5.0, process_zip_codes(['90210'])
\* returns exactly one property with the listing's address, price, bedrooms
\* and estimated_rent 7000.
C20_CompleteFlow ==
    (/\ pc = "done"
     /\ zip_codes = <<"90210">>
     /\ delivered = 1
     /\ down_payment_percent = Rat(1, 5)
     /\ interest_rate_decimal = Rat(1, 20)
     /\ loan_term_years = 30
     /\ min_cash_flow = R(100)
     /\ min_coc_return = R(5)
     /\ Len(all_processed_properties) = 1
     /\ all_processed_properties[1].address = TestListing.address
     /\ all_processed_properties[1].estimated_rent = TestRent)
    => /\ Len(filtered_properties) = 1
       /\ filtered_properties[1].address = TestListing.address
       /\ filtered_properties[1].price = R(1200000)
       /\ filtered_properties[1].bedrooms = 3
       /\ filtered_properties[1].estimated_rent = TestRent

----------------------------------------------------------------------------
(* Properties of the calculators, checked under SpecCalc.                  *)

\* a < b, comparing whole parts before fractions
Below(a, b) ==
    LET ia == a.n \div a.d
        ib == b.n \div b.d
    IN  \/ ia < ib
        \/ ia = ib /\ (a.n % a.d) * b.d < (b.n % b.d) * a.d

Sign(i) == IF i > 0 THEN 1 ELSE IF i < 0 THEN -1 ELSE 0

\* the sign of price * (1 - down_payment), from the signs of its factors
LoanSign(total_price, down_payment) ==
    Sign(total_price.n) * Sign(down_payment.d - down_payment.n)

MortgageCall == calc.fn = "calculate_monthly_mortgage"

\* C13 as amended: calculate_monthly_mortgage returns None whenever
\* loan_term_years <= 0 and the loan amount price * (1 - down payment) is
\* above 0, for every interest rate.
C13_InvalidTermWithLoan ==
    (/\ MortgageCall
     /\ calc.args[4] <= 0
     /\ LoanSign(calc.args[1], calc.args[2]) > 0)
    => calc.result = None

\* C13 as stated: calculate_monthly_mortgage returns None whenever
\* loan_term_years <= 0, for every price, down payment and interest rate.
C13_InvalidTermAlways ==
    (MortgageCall /\ calc.args[4] <= 0) => calc.result = None

\* a call with a loan to finance, a positive rate and term 0
C13_Witness ==
    /\ MortgageCall
    /\ calc.args = <<R(100), Rat(1, 5), R(12), 0>>
    /\ calc.result = None

\* C14: calculate_monthly_mortgage returns 0 whenever the loan amount
\* price * (1 - down payment) is <= 0, for every rate and term.
C14_NoLoanNoPayment ==
    (MortgageCall /\ LoanSign(calc.args[1], calc.args[2]) <= 0)
    => calc.result = Value(Zero)

\* a full down payment with term 0 and a positive rate
C14_Witness ==
    /\ MortgageCall
    /\ calc.args = <<R(100), R(1), R(12), 0>>
    /\ calc.result = Value(Zero)

\* C15: for price > 0, term > 0, rate >= 0 and a down payment in [0, 1],
\* calculate_monthly_mortgage returns a payment >= 0, and with a loan above 0
\* every higher rate gives a strictly higher payment, rate 0 included.
C15_PaymentMonotone ==
    (/\ MortgageCall
     /\ calc.args[1].n > 0
     /\ calc.args[4] > 0
     /\ calc.args[3].n >= 0
     /\ calc.args[2].n >= 0 /\ calc.args[2].n <= calc.args[2].d)
    => /\ calc.result.t = "value"
       /\ calc.result.v.n >= 0
       /\ LoanSign(calc.args[1], calc.args[2]) > 0 =>
             \A higher \in MortgageRates :
                 Below(calc.args[3], higher) =>
                     LET other == calculate_monthly_mortgage(
                                      calc.args[1], calc.args[2], higher, calc.args[4])
                     IN  other.t = "value" /\ Below(calc.result.v, other.v)

CashFlowCall == calc.fn = "calculate_cash_flow"

\* C16: calculate_cash_flow returns None exactly when the monthly rent or the
\* monthly mortgage is None; otherwise its result r satisfies
\* r + mortgage + expenses = rent, so a rent or mortgage of 0 is a value and
\* the result may be zero or negative.
C16_CashFlow ==
    CashFlowCall =>
        /\ calc.result = None <=> (calc.args[1] = None \/ calc.args[2] = None)
        /\ calc.result # None =>
              /\ calc.result.t = "value"
              /\ RAdd(RAdd(calc.result.v, calc.args[2].v), calc.args[3]) = calc.args[1].v

\* a rent of 0 against a mortgage of 0 gives a negative cash flow, not None
C16_Witness ==
    /\ CashFlowCall
    /\ calc.args = <<Value(Zero), Value(Zero), R(300)>>
    /\ calc.result = Value(R(-300))

CocCall == calc.fn = "calculate_coc_return"

\* C17: calculate_coc_return returns None exactly when price * down payment
\* is <= 0 or the annual cash flow is None; otherwise its result r satisfies
\* r * cash_invested = annual_cash_flow * 100, so it has the sign of the cash
\* flow.
C17_CocReturn ==
    CocCall =>
        LET invested_sign == Sign(calc.args[1].n) * Sign(calc.args[2].n)
        IN  /\ calc.result = None <=> (invested_sign <= 0 \/ calc.args[3] = None)
            /\ calc.result # None =>
                  /\ calc.result.t = "value"
                  /\ RMul(calc.result.v, RMul(calc.args[1], calc.args[2]))
                        = RMul(calc.args[3].v, R(100))
                  /\ Sign(calc.result.v.n) = Sign(calc.args[3].v.n)

\* 300000 at 20% down with -6000 a year returns -10
C17_Witness ==
    /\ CocCall
    /\ calc.args = <<R(300000), Rat(1, 5), Value(R(-6000))>>
    /\ calc.result = Value(R(-10))

----------------------------------------------------------------------------
(* Retries and a down payment of nothing, checked under Spec.              *)

SkippedOutcomes == {"rent", "mortgage", "cash_flow", "coc"}

\* C25: no retry inside the client or the pipeline: a call of
\* get_rent_estimate makes at most one external request, every pass of the
\* loop takes the next listing, so that no listing is examined twice, and a
\* pass whose rent lookup or calculation fails adds nothing and goes on to the
\* next listing.
C25_NoRetry ==
    [][/\ call'.requests <= 1
       /\ call'.requests = (IF call'.requested THEN 1 ELSE 0)
       /\ examined' <= delivered'
       /\ examined' # examined =>
             /\ examined' = examined + 1
             /\ remaining' = remaining - 1
             /\ last'.outcome \in SkippedOutcomes =>
                    /\ all_processed_properties' = all_processed_properties
                    /\ pc' = "listing"]_vars

\* a listing was skipped after its one rent request had failed, and one after
\* a calculation gave nothing
C25_Witness ==
    \/ /\ last.outcome = "rent"
       /\ call.requests = 1
       /\ call.ret = None
       /\ remaining > 0
    \/ /\ last.outcome \in {"mortgage", "coc"}
       /\ call.requests = 1
       /\ call.ret.t = "value"

\* C28: with a down payment of 0 process_zip_codes returns an empty list for
\* every input: no listing is scored, so nothing reaches the filter, and the
\* call ends by returning.
C28_ZeroDownPaymentEmpty ==
    (down_payment_percent = Zero /\ pc # "idle") =>
        /\ last.outcome # "scored"
        /\ all_processed_properties = <<>>
        /\ filtered_properties = <<>>
        /\ pc # "raised"

\* the part of C28 that holds: nothing is scored or returned
C28_NothingScored ==
    (down_payment_percent = Zero /\ pc # "idle") =>
        /\ last.outcome # "scored"
        /\ all_processed_properties = <<>>
        /\ filtered_properties = <<>>

----------------------------------------------------------------------------
(* Properties of the command-line program, checked under SpecMain and      *)
(* SpecZips.                                                               *)

\* an entry that is five digits and nothing else
FiveDigits(core) == Len(core) = 5 /\ \A i \in 1..5 : IsDigit(core[i])

\* the entries of the input that are valid ZIP codes, in input order
RECURSIVE ValidCores(_)
ValidCores(parts) ==
    IF parts = <<>> THEN <<>>
    ELSE (IF FiveDigits(Head(parts).core) THEN <<Head(parts).core>> ELSE <<>>)
         \o ValidCores(Tail(parts))

\* no valid ZIP code is left: none was given, the file cannot be read, or
\* every entry is invalid
NoValidZip(source, parts) ==
    source \in {"unreadable", "neither"} \/ ValidCores(parts) = <<>>

\* C21: main ends with a failure exit code, without calling
\* process_zip_codes, when validate_config reports an issue or no valid ZIP
\* code remains; and it ends with a failure exit code in no other case.
C21_OnlyTwoFatal ==
    cli.stage = "exited" =>
        LET fatal == validate_config(cli.unset) # {}
                         \/ NoValidZip(cli.source, cli.parts)
        IN  /\ fatal => cli.exit_code # 0 /\ ~cli.invoked
            /\ cli.exit_code # 0 => fatal

\* C22: load_zip_codes returns exactly the entries of its input that are
\* five digits after trimming, in input order with duplicates kept, and the
\* empty list for a ZIP file that cannot be read.
C22_LoadZipCodes ==
    cli.stage = "loaded" =>
        cli.loaded = IF cli.source \in {"unreadable", "neither"} THEN <<>>
                     ELSE ValidCores(cli.parts)

\* a padded duplicate was kept and an invalid entry between the two dropped
C22_Witness ==
    /\ cli.stage = "loaded"
    /\ cli.source = "zipfile"
    /\ Len(cli.parts) = MaxEntries
    /\ cli.loaded = <<Z90210>>
    /\ cli.parts[1].core # Z90210
    /\ cli.parts[MaxEntries].lead # <<>>

----------------------------------------------------------------------------
(* Properties of _make_request, checked under SpecHttp.                    *)

\* the request failed: the transport raised, the status is an error status,
\* or the body cannot be parsed
RequestFailed(transport) ==
    \/ transport.raised # "none"
    \/ transport.status_code >= 400
    \/ transport.body = "not_json"

\* C23: every failure of a request in _make_request (a status >= 400, a body
\* that cannot be parsed, any exception of the transport call) leaves
\* _make_request as APIError and as no other exception.
C23_FailuresAreApiErrors ==
    (http.made /\ RequestFailed(http.transport)) => http.result.kind = "APIError"

----------------------------------------------------------------------------
(* Properties of the web app, checked under SpecApp.                       *)

\* C24: a what-if recalculation never edits scored properties in place: the
\* frame handed to recalculate_metrics has the same rows with the same fields
\* after the call as before it, the stored original results are the same
\* records still, and the result is a record per input record, for any
\* override values.
C24_RecalculationKeepsOriginals ==
    ui.handler = "recalculate" =>
        /\ ui.after = ui.before
        /\ session.original_results = ui.before
        /\ session.recalculated_results = ui.result
        /\ Len(ui.result) = Len(ui.before)
        /\ \A i \in 1..Len(ui.before) : ui.result[i].address = ui.before[i].address

\* a recalculation whose overrides changed the mortgage of a stored property
C24_Witness ==
    /\ ui.handler = "recalculate"
    /\ \E i \in 1..Len(ui.before) :
          ui.result[i].estimated_mortgage # Value(ui.before[i].estimated_mortgage)

\* C29: after every completed run of the analysis the baseline kept in the
\* session (original_results and run_config, from which a what-if
\* recalculation starts) is the result and the assumptions of that run, also
\* when the run repeats the ZIP codes of the run before it with other
\* assumptions or thresholds.
C29_BaselineIsLatestRun ==
    pc = "shown" =>
        /\ session.has_original
        /\ session.last_run_zip_codes = zip_codes
        /\ session.original_results = filtered_properties
        /\ session.run_config =
               RunConfig(interest_rate_decimal, down_payment_percent,
                         loan_term_years, calculate_monthly_expenses(SamplePrice))

----------------------------------------------------------------------------
(* Properties of the cache file, checked under SpecWorkers and SpecDisk.   *)

InFile(k) == file.kind = "object" /\ \E m \in file.doc : m[1] = k

\* C26: no lost update on the cache file two clients share: whatever the
\* order of their fetches, the file holds an entry for every key that either
\* of them has fetched and saved.
C26_NoLostUpdate == \A k \in Keys : stored[k].set => InFile(k)

\* C27: when the write of the cache file fails after a fetch, the call still
\* returns the fetched value and raises nothing, the new entry is in the
\* in-memory cache, and the file is left as it was or broken; as long as the
\* instance lives and the entry is young enough, a later call for the key is
\* served from memory without a request.
C27_WriteFailureIsSwallowed ==
    [][/\ (call'.made /\ call'.write # "ok") =>
              /\ call'.requested
              /\ call'.ret = rent_from_response(call'.resp)
              /\ call'.ret.t = "value"
              /\ cache_data'.kind = "dict"
              /\ call'.key \in DOMAIN cache_data'.entries
              /\ cache_data'.entries[call'.key] = Entry(Num(R(now)), Num(call'.ret.v))
              /\ file' \in {file, InvalidJson}
       /\ \A k \in Keys :
              (/\ stored[k].set
               /\ ~stored[k].reloaded
               /\ now - stored[k].timestamp < cache_duration_seconds
               /\ call'.made
               /\ call' # call
               /\ call'.key = k) =>
                  /\ ~call'.requested
                  /\ call'.ret = Value(stored[k].v)]_vars

\* a call served from memory for a key the file does not hold: the write that
\* followed its fetch had failed
C27_Witness ==
    /\ call.made
    /\ ~call.requested
    /\ call.ret.t = "value"
    /\ stored[call.key].set
    /\ ~stored[call.key].reloaded
    /\ ~InFile(call.key)

----------------------------------------------------------------------------
(* Properties of the shortlist, checked under SpecShortlist.               *)

LinksOf(shortlist) == [i \in 1..Len(shortlist) |-> shortlist[i].link]
NoDuplicateLinks(shortlist) ==
    \A i, j \in 1..Len(shortlist) :
        shortlist[i].link = shortlist[j].link => i = j
\* shortlist is before without the item at position p
Without(before, p, shortlist) ==
    /\ Len(shortlist) = Len(before) - 1
    /\ \A i \in 1..Len(shortlist) :
          shortlist[i] = IF i < p THEN before[i] ELSE before[i + 1]

\* C30: from a shortlist without two items of one link, whatever is added and
\* removed, the shortlist has no two items of one link and no item without a
\* link; an add keeps the items there were, in their order, in front of the
\* new ones; a remove deletes the one item with the link and leaves the
\* others and their order as they were.
C30_ShortlistLinksUnique ==
    /\ NoDuplicateLinks(session.shortlist)
    /\ \A i \in 1..Len(session.shortlist) : session.shortlist[i].link # NoLink
    /\ ui.handler = "add" =>
          /\ Len(session.shortlist) >= Len(ui.before)
          /\ SubSeq(session.shortlist, 1, Len(ui.before)) = ui.before
          /\ \A i \in 1..Len(ui.result) :
                ui.result[i].link # NoLink =>
                    \E j \in 1..Len(session.shortlist) :
                        session.shortlist[j].link = ui.result[i].link
    /\ ui.handler = "remove" =>
          /\ \A i \in 1..Len(session.shortlist) :
                session.shortlist[i].link # ui.link
          /\ \E p \in 1..Len(ui.before) :
                /\ ui.before[p].link = ui.link
                /\ Without(ui.before, p, session.shortlist)

\* two selected rows of one link were offered and one was added, a row
\* without a link was left out, and an item was removed from between others
C30_Witness ==
    \/ /\ ui.handler = "add"
       /\ Len(ui.result) = 2
       /\ ui.result[1].link = ui.result[2].link
       /\ Len(session.shortlist) = Len(ui.before) + 1
    \/ /\ ui.handler = "add"
       /\ \E i \in 1..Len(ui.result) : ui.result[i].link = NoLink
       /\ Len(session.shortlist) > Len(ui.before)
    \/ /\ ui.handler = "remove"
       /\ Len(ui.before) >= 3
       /\ ui.before[2].link = ui.link
====
